---- MODULE Spec2Model ----
(***************************************************************************)
(* Model of the agent runtime of Arx88/Mitosis.                            *)
(*                                                                         *)
(* The driver (backend/agent/run.py, run_agent) is modelled from its       *)
(* source, one action per step of the coroutine between two suspension     *)
(* points.  ThreadManager.run_thread and the ResponseProcessor are not     *)
(* part of the source tree at hand; the stream of chunks they produce is   *)
(* modelled from sections 4.6 and 4.7 of the specification (definitions    *)
(* whose names start with Rp).  The message table is the store behind      *)
(* client.table('messages'); its reads and writes are assumed to succeed.  *)
(***************************************************************************)
EXTENDS Integers, Sequences, FiniteSets, TLC

\* ------------------------------------------------------------------ bounds

\* run_agent(max_iterations=...): the iteration budget of one invocation
max_iterations == 2

\* most chunks the LLM stream of one response contributes (text, tool starts,
\* errors); the results of the tools it started come on top
MaxChunks == 2

\* most tool tags the response of the tool-cap scenario holds
MaxTags == 12

\* ------------------------------------------------------- program constants

\* run_thread(max_xml_tool_calls=10)
max_xml_tool_calls == 10

\* the three end-of-turn tags the driver looks for in assistant text
TerminatorTags == {"</ask>", "</complete>", "</web-browser-takeover>"}

\* pieces of assistant text a chunk may carry
Tokens == {"hi"} \cup TerminatorTags

\* texts of assistant chunks: one token each
Texts == {<<t>> : t \in Tokens}

\* tools the modelled LLM invokes
ToolNames == {"execute-command", "browser-navigate-to"}

\* messages carried by exceptions and by billing refusals
ExcMsgs == {"e1"}

\* kinds of message the last-message check looks at
ConversationTypes == {"assistant", "tool", "user"}

\* payloads of a browser_state record, by the screenshot fields they hold
BrowserContents == {"no_screenshot", "image_url", "screenshot_url",
                    "screenshot_base64", "url_and_base64", "not_json"}

\* payloads of an image_context record
ImageContents == {"full", "no_mime_type", "not_json"}

VARIABLES
  stream,                \* run_agent parameter
  pc,                    \* position of the run_agent coroutine
  iteration_count,
  continue_execution,
  last_tool_name,
  last_tool_call,
  agent_should_terminate,
  error_detected,
  full_response,
  temporary_message,
  messages,              \* the thread's rows of table 'messages', oldest first
  next_id,               \* next message_id the store assigns
  rp,                    \* state of the response stream of the current run_thread call
  events,                \* what run_agent has yielded during the current iteration
  llm_calls,             \* run_thread calls of the invocation
  iter_llm_calls,        \* run_thread calls of the current iteration
  hist,                  \* observations about the run, read by the properties only
  sandbox_provider,      \* config SANDBOX_TYPE
  client,                \* local_docker_handler.client
  daytona,               \* sandbox.daytona, the Daytona client of the module
  backend,               \* what the Docker daemon and the Daytona service hold
  project_sandbox,       \* column 'sandbox' of the project's row of table 'projects'
  tool_sandbox,          \* SandboxToolsBase._sandbox of the browser tool of the run
  call,                  \* the latest sandbox or tool call and what it returned
  daytona_config,        \* config DAYTONA_API_KEY and DAYTONA_SERVER_URL: set or not
  callers,               \* the coroutines of the process that call the Docker handler
  workers,               \* processes that call get_or_start_sandbox on one daemon
  parser,                \* an XMLToolParser.parse call: its xml_string and its result
  llm,                   \* the make_llm_api_call coroutines of the process
  dispatch               \* a tool registry and a tool call executed on it

driver_vars == <<stream, pc, iteration_count, continue_execution, last_tool_name,
                 last_tool_call, agent_should_terminate, error_detected, full_response,
                 temporary_message, messages, next_id, rp, events, llm_calls,
                 iter_llm_calls, hist>>

sandbox_vars == <<sandbox_provider, client, daytona, backend, project_sandbox,
                  tool_sandbox, call, daytona_config>>

service_vars == <<llm, dispatch>>

aux_vars == <<callers, workers, parser, service_vars>>

vars == <<driver_vars, sandbox_vars, aux_vars>>

\* ----------------------------------------------------------------- helpers

Range(s) == {s[i] : i \in 1..Len(s)}

RECURSIVE Flatten(_)
Flatten(ss) == IF ss = << >> THEN << >> ELSE Head(ss) \o Flatten(Tail(ss))

\* an event yielded by run_agent; content is a sequence of text pieces
Event(type, status, content, tool_name, is_error) ==
  [type |-> type, status |-> status, content |-> content,
   tool_name |-> tool_name, is_error |-> is_error]

\* a chunk of the response stream: text is the assistant text of an assistant
\* chunk, message the 'message' of a status chunk, terminate the
\* agent_should_terminate entry of its metadata, is_error the flag of a tool chunk
NoChunk ==
  [type |-> "", status |-> "", status_type |-> "", name |-> "", text |-> << >>,
   message |-> << >>, terminate |-> FALSE, is_error |-> FALSE]

AssistantChunk(text) == [NoChunk EXCEPT !.type = "assistant", !.text = text]

StatusChunk(status_type, name, terminate) ==
  [NoChunk EXCEPT !.type = "status", !.status_type = status_type, !.name = name,
                  !.terminate = terminate]

ErrorChunk(message) ==
  [NoChunk EXCEPT !.type = "status", !.status = "error", !.message = message]

ToolChunk(name, is_error) ==
  [NoChunk EXCEPT !.type = "tool", !.name = name, !.is_error = is_error]

\* a row of table 'messages'
Message(id, type, content) == [message_id |-> id, type |-> type, content |-> content]

\* ------------------------------------------------------------ message store

\* select('*').eq('type', ...).order('created_at', desc=True).limit(1): indexes of the rows
RowsOfTypes(msgs, types) == {i \in 1..Len(msgs) : msgs[i].type \in types}

HasLatest(msgs, types) == RowsOfTypes(msgs, types) # {}

Latest(msgs, types) ==
  msgs[CHOOSE i \in RowsOfTypes(msgs, types) :
         \A j \in RowsOfTypes(msgs, types) : j <= i]

\* thread_manager.add_message / threads.add_message
AddMessage(msgs, id, type, content) == Append(msgs, Message(id, type, content))

\* table('messages').delete().eq('message_id', id)
DeleteMessage(msgs, id) == SelectSeq(msgs, LAMBDA m : m.message_id # id)

\* ------------------------------------------------------- turn message parts

\* one content block of the temporary message; msg is the row it was built from
Part(type, url, id) == [type |-> type, url |-> url, msg |-> id]

\* fields of a browser_state payload that the driver reads
BrowserFields(content) ==
  CASE content = "screenshot_url"    -> {"screenshot_url"}
    [] content = "screenshot_base64" -> {"screenshot_base64"}
    [] content = "url_and_base64"    -> {"screenshot_url", "screenshot_base64"}
    [] content = "image_url"         -> {"image_url"}
    [] OTHER                         -> {}

\* blocks appended for the latest browser_state row m
BrowserParts(m) ==
  IF m.content = "not_json" THEN << >>
  ELSE <<Part("text", "browser_state", m.message_id)>> \o
       (IF "screenshot_url" \in BrowserFields(m.content)
          THEN <<Part("image_url", "screenshot_url", m.message_id)>>
        ELSE IF "screenshot_base64" \in BrowserFields(m.content)
          THEN <<Part("image_url", "data:image/jpeg;base64", m.message_id)>>
        ELSE << >>)

\* blocks appended for the latest image_context row m
ImageParts(m) ==
  IF m.content = "full"
    THEN <<Part("text", "caption", m.message_id),
           Part("image_url", "data:mime_type;base64", m.message_id)>>
    ELSE << >>

\* the image_context branch without its delete
ConsumeImageContext_keeps(msgs, m) == msgs

\* the image_context branch deleting by type instead of by message_id
ConsumeImageContext_deletes_ephemeral(msgs, m) ==
  IF m.content = "not_json" THEN msgs
  ELSE SelectSeq(msgs, LAMBDA r : r.type \notin {"image_context", "browser_state"})

\* the rows left after the image_context branch has handled row m
ConsumeImageContext(msgs, m) ==
  IF m.content = "not_json" THEN msgs ELSE DeleteMessage(msgs, m.message_id)

\* ------------------------------------------------------------ initial state

\* rows a thread may hold when run_agent is called: a conversation row, then
\* at most one browser_state row, then up to two image_context rows
InitConversations == {<<<<t, "text">>>> : t \in ConversationTypes}

InitBrowserStates ==
  {<<<<"browser_state", c>>>> : c \in {"image_url", "url_and_base64", "not_json"}}

InitImageContexts ==
  {<<<<"image_context", c>>>> : c \in ImageContents}
    \cup {<<<<"image_context", "full">>, <<"image_context", "full">>>>}

InitThreads ==
  InitConversations
  \cup {<<<<"user", "text">>>> \o bs : bs \in InitBrowserStates}
  \cup {<<<<"user", "text">>, <<"browser_state", "image_url">>>> \o ic :
          ic \in InitImageContexts}

\* the rows with the message_ids the store assigned on insert
Numbered(rows) == [i \in 1..Len(rows) |-> Message(i, rows[i][1], rows[i][2])]

\* the stream state before any run_thread call
RpIdle ==
  [open |-> FALSE, draining |-> FALSE, terminator |-> FALSE, final_sent |-> FALSE,
   pending |-> << >>, tools |-> 0, executed |-> 0, len |-> 0, warned |-> FALSE]

\* what the properties remember of a run:
\*   exit         how the loop was left ("" while it runs)
\*   raised       the message of the exception run_thread or its stream raised
\*   at_raise     the events of the iteration yielded before that exception
\*   last_kind    the type the last-message check of this iteration read
\*   error_chunk  an error status chunk arrived in this iteration
\*   read_on      a chunk was read after an error chunk of this iteration
\*   received     the assistant texts of this iteration, in arrival order
\*   deleted      the message_ids the driver deleted
\*   included     the image_context rows put in a temporary message, in order
\*   built        a temporary message has been built before
\*   bs_used      the browser_state row the latest build read (0: none)
\*   bs_inserted  a browser_state row was inserted since the latest build
\*   bs_fresh     bs_inserted as the latest build found it
\*   scheduled    the tools the stream of this iteration started, in source order
\*   results      the results the stream of this iteration delivered, in order
\*   late_start   a tool was started after a terminator tag of this iteration closed
\*   warnings     the warning chunks the stream of this iteration delivered
\*   excess       the tool invocations of this iteration's response beyond the cap
HistInit ==
  [exit |-> "", raised |-> "none", at_raise |-> << >>, last_kind |-> "",
   error_chunk |-> FALSE, read_on |-> FALSE, received |-> << >>,
   deleted |-> {}, included |-> << >>, built |-> FALSE, bs_used |-> 0,
   bs_inserted |-> FALSE, bs_fresh |-> FALSE, scheduled |-> << >>,
   results |-> << >>, late_start |-> FALSE, warnings |-> 0, excess |-> 0]

\* ------------------------------------------------------ the sandbox provider

\* most sandboxes the backends create during one run of the model
MaxSandboxes == 2

\* sandbox types a descriptor or SANDBOX_TYPE names
SandboxTypes == {"local_docker", "daytona"}

\* container.status values of Docker that the provider tells apart; "paused"
\* stands for the states it calls unusable
ContainerStatuses == {"created", "running", "exited", "paused"}

\* WorkspaceState values of Daytona: the two the provider starts from, the
\* running one, and "error" for the others
WorkspaceStates == {"started", "stopped", "archived", "error"}

\* the project whose sandbox is modelled, and the name Docker knows its container by
ProjectId == "p1"

ContainerName(project_id) == <<"agentpress_sandbox_", project_id>>

\* column 'sandbox' of a project: absent, or the type and id of its sandbox
NoDescriptor == [present |-> FALSE, type |-> "", id |-> 0]

Descriptor(type, id) == [present |-> TRUE, type |-> type, id |-> id]

\* what get_or_start_sandbox and create_sandbox return: None, or a sandbox object
NoHandle == [type |-> "", id |-> 0]

Handle(type, id) == [type |-> type, id |-> id]

\* the backends with no sandbox in them
EmptyBackend ==
  [docker_up |-> TRUE, containers |-> {}, workspaces |-> {}, next_id |-> 1]

HasContainer(b, id) == \E c \in b.containers : c.id = id

ContainerStatus(b, id) == (CHOOSE c \in b.containers : c.id = id).status

SetContainerStatus(b, id, status) ==
  [b EXCEPT !.containers = {IF c.id = id THEN [c EXCEPT !.status = status] ELSE c : c \in @}]

HasWorkspace(b, id) == \E w \in b.workspaces : w.id = id

WorkspaceState(b, id) == (CHOOSE w \in b.workspaces : w.id = id).state

SetWorkspaceState(b, id, state) ==
  [b EXCEPT !.workspaces = {IF w.id = id THEN [w EXCEPT !.state = state] ELSE w : w \in @}]

\* _get_or_initialize_client without 'if client is None': it connects on every
\* call and returns what the connection gave
GetOrInitializeClient_connects_always(cl, b) ==
  IF b.docker_up THEN "DockerClient" ELSE "None"

\* _get_or_initialize_client caching the failure of its first attempt
GetOrInitializeClient_caches_failure(cl, b) ==
  IF cl = "None" THEN (IF b.docker_up THEN "DockerClient" ELSE "Failed") ELSE cl

\* _get_or_initialize_client: the cached client, or a new one when the daemon answers
GetOrInitializeClient(cl, b) ==
  IF cl = "None" THEN (IF b.docker_up THEN "DockerClient" ELSE "None") ELSE cl

\* get_sandbox_container_status reporting a container the daemon does not hold
\* as exited
GetSandboxContainerStatus_missing_as_exited(cl, b, id) ==
  IF GetOrInitializeClient(cl, b) = "None" THEN "None"
  ELSE IF ~b.docker_up THEN "error"
  ELSE IF ~HasContainer(b, id) THEN "exited"
  ELSE ContainerStatus(b, id)

\* get_sandbox_container_status: "None" without a client, "not_found", "error"
\* when containers.get raises anything else, or the container's status
GetSandboxContainerStatus(cl, b, id) ==
  IF GetOrInitializeClient(cl, b) = "None" THEN "None"
  ELSE IF ~b.docker_up THEN "error"
  ELSE IF ~HasContainer(b, id) THEN "not_found"
  ELSE ContainerStatus(b, id)

\* the sandboxes of the project a backend holds: Docker labels the container
\* with project_id, Daytona the workspace with id
ProjectSandboxes(b) ==
  {Handle("local_docker", c.id) : c \in b.containers}
    \cup {Handle("daytona", w.id) : w \in b.workspaces}

\* the state of the sandbox a descriptor or handle names, "" when there is none
SandboxState(b, type, id) ==
  IF type = "local_docker" /\ HasContainer(b, id) THEN ContainerStatus(b, id)
  ELSE IF type = "daytona" /\ HasWorkspace(b, id) THEN WorkspaceState(b, id)
  ELSE ""

\* the sandbox runs: Docker reports 'running', Daytona WorkspaceState.STARTED
IsRunning(b, type, id) == SandboxState(b, type, id) \in {"running", "started"}

\* the outcome of a provider call: the value returned (a handle, or for
\* delete_sandbox its boolean in ok), the exception that left the function,
\* the exception caught inside, whether a start was issued, and the
\* descriptor, the client and the backends after it
Outcome(value, raised, cause, started, cl, b) ==
  [value |-> value, ok |-> value # NoHandle, raised |-> raised, cause |-> cause,
   started |-> started, desc |-> NoDescriptor, client |-> cl, backend |-> b]

\* get_or_start_sandbox, branch 'local_docker'
GetOrStartLocal(cl, b, desc) ==
  LET status == GetSandboxContainerStatus(cl, b, desc.id)
      cur == GetOrInitializeClient(cl, b)
  IN CASE status = "None" ->
            {Outcome(NoHandle, "LocalDockerUnavailableError", "", FALSE, cur, b)}
       [] status = "running" ->
            {Outcome(Handle("local_docker", desc.id), "", "", FALSE, cur, b)}
       [] status \in {"created", "exited", "stopped"} ->
            {Outcome(Handle("local_docker", desc.id), "", "", TRUE, cur,
                     SetContainerStatus(b, desc.id, "running")),
             Outcome(NoHandle, "", "APIError", TRUE, cur, b)}
       [] OTHER ->
            {Outcome(NoHandle, "", "", FALSE, cur, b)}

\* get_or_start_sandbox, branch 'daytona'
GetOrStartDaytona(cl, dt, b, desc) ==
  IF dt = "None"
    THEN {Outcome(NoHandle, "DaytonaNotConfiguredError", "", FALSE, cl, b)}
  ELSE IF ~HasWorkspace(b, desc.id)
    THEN {Outcome(NoHandle, "DaytonaError", "", FALSE, cl, b)}
  ELSE IF WorkspaceState(b, desc.id) \in {"archived", "stopped"}
    THEN {Outcome(Handle("daytona", desc.id), "", "", TRUE, cl,
                  SetWorkspaceState(b, desc.id, "started")),
          Outcome(NoHandle, "DaytonaError", "", TRUE, cl, b),
          Outcome(NoHandle, "Exception", "", TRUE, cl,
                  SetWorkspaceState(b, desc.id, "started"))}
  ELSE {Outcome(Handle("daytona", desc.id), "", "", FALSE, cl, b)}

\* the body of 'try' in get_or_start_sandbox
GetOrStartBody(cl, dt, b, desc) ==
  IF ~desc.present
    THEN {Outcome(NoHandle, "Exception", "", FALSE, cl, b)}
  ELSE IF desc.id = 0 \/ desc.type = ""
    THEN {Outcome(NoHandle, "Exception", "", FALSE, cl, b)}
  ELSE IF desc.type = "local_docker" THEN GetOrStartLocal(cl, b, desc)
  ELSE IF desc.type = "daytona" THEN GetOrStartDaytona(cl, dt, b, desc)
  ELSE {Outcome(NoHandle, "ValueError", "", FALSE, cl, b)}

\* 'except Exception' of get_or_start_sandbox: whatever the body raised is
\* logged and None returned
CaughtReturnsNone(o) ==
  IF o.raised = "" THEN o ELSE [o EXCEPT !.raised = "", !.cause = o.raised]

\* get_or_start_sandbox(project_id, db_client)
GetOrStartSandbox(cl, dt, b, desc) ==
  {CaughtReturnsNone(o) : o \in GetOrStartBody(cl, dt, b, desc)}

\* SandboxToolsBase._ensure_sandbox: the cached sandbox, or the one
\* get_or_start_sandbox returns; None from it is raised as ValueError
EnsureSandbox(cached, cl, dt, b, desc) ==
  IF cached # NoHandle
    THEN {Outcome(cached, "", "", FALSE, cl, b)}
    ELSE {IF o.value = NoHandle THEN [o EXCEPT !.raised = "ValueError"] ELSE o :
            o \in GetOrStartSandbox(cl, dt, b, desc)}

\* local_docker_handler.start_sandbox_container: the backend with the new
\* container, or None when there is no client, the daemon refuses (the name of
\* the project's container is taken, the image is missing) or does not answer
StartSandboxContainer(cl, b, project_id) ==
  LET cur == GetOrInitializeClient(cl, b)
      new == [id |-> b.next_id, name |-> ContainerName(project_id), status |-> "running"]
  IN IF cur = "None" \/ ~b.docker_up
          \/ \E c \in b.containers : c.name = ContainerName(project_id)
       THEN {Outcome(NoHandle, "", "", FALSE, cur, b)}
       ELSE {Outcome(Handle("local_docker", new.id), "", "", TRUE, cur,
                     [b EXCEPT !.containers = @ \cup {new}, !.next_id = @ + 1]),
             Outcome(NoHandle, "", "ImageNotFound", FALSE, cur, b)}

\* create_sandbox returning a handle that names another sandbox than the one
\* it started
CreateSandbox_returns_other_id(provider, cl, dt, b, project_id) ==
  IF provider = "local_docker"
    THEN {IF o.value = NoHandle
            THEN [o EXCEPT !.raised = "LocalDockerUnavailableError"]
            ELSE [o EXCEPT !.value = Handle("local_docker", b.next_id + 1)] :
            o \in StartSandboxContainer(cl, b, project_id)}
  ELSE IF provider = "daytona"
    THEN IF dt = "None"
           THEN {Outcome(NoHandle, "", "", FALSE, cl, b),
                 Outcome(NoHandle, "DaytonaNotConfiguredError", "", FALSE, cl, b)}
           ELSE LET new == [id |-> b.next_id, label |-> project_id, state |-> "started"]
                    made == [b EXCEPT !.workspaces = @ \cup {new}, !.next_id = @ + 1]
                IN {Outcome(Handle("daytona", new.id + 1), "", "", TRUE, cl, made),
                    Outcome(NoHandle, "DaytonaError", "", FALSE, cl, b),
                    Outcome(NoHandle, "Exception", "", TRUE, cl, made)}
  ELSE {Outcome(NoHandle, "ValueError", "", FALSE, cl, b)}

\* create_sandbox(password, project_id)
CreateSandbox(provider, cl, dt, b, project_id) ==
  IF provider = "local_docker"
    THEN {IF o.value = NoHandle
            THEN [o EXCEPT !.raised = "LocalDockerUnavailableError"] ELSE o :
            o \in StartSandboxContainer(cl, b, project_id)}
  ELSE IF provider = "daytona"
    THEN IF dt = "None"
           THEN {Outcome(NoHandle, "", "", FALSE, cl, b),
                 Outcome(NoHandle, "DaytonaNotConfiguredError", "", FALSE, cl, b)}
           ELSE LET new == [id |-> b.next_id, label |-> project_id, state |-> "started"]
                    made == [b EXCEPT !.workspaces = @ \cup {new}, !.next_id = @ + 1]
                IN {Outcome(Handle("daytona", new.id), "", "", TRUE, cl, made),
                    Outcome(NoHandle, "DaytonaError", "", FALSE, cl, b),
                    Outcome(NoHandle, "Exception", "", TRUE, cl, made)}
  ELSE {Outcome(NoHandle, "ValueError", "", FALSE, cl, b)}

\* the caller of create_sandbox records the descriptor of the sandbox it got
RecordDescriptor(desc, o) ==
  IF o.value = NoHandle THEN desc ELSE Descriptor(o.value.type, o.value.id)

\* local_docker_handler.stop_and_remove_sandbox_container(id, raise_not_found=False)
StopAndRemoveSandboxContainer(cl, b, id) ==
  LET cur == GetOrInitializeClient(cl, b)
  IN IF cur = "None" THEN [ok |-> FALSE, client |-> cur, backend |-> b]
     ELSE IF ~b.docker_up \/ ~HasContainer(b, id)
       THEN [ok |-> FALSE, client |-> cur, backend |-> b]
     ELSE [ok |-> TRUE, client |-> cur,
           backend |-> [b EXCEPT !.containers = {c \in @ : c.id # id}]]

\* the result of delete_sandbox: what it returns and the descriptor it leaves
Deleted(ok, desc, cl, b) ==
  [Outcome(NoHandle, "", "", FALSE, cl, b) EXCEPT !.ok = ok, !.desc = desc]

\* delete_sandbox(project_id, db_client)
DeleteSandbox(cl, dt, b, desc) ==
  IF ~desc.present THEN {Deleted(TRUE, desc, cl, b)}
  ELSE IF desc.id = 0 \/ desc.type = "" THEN {Deleted(FALSE, NoDescriptor, cl, b)}
  ELSE IF desc.type = "local_docker"
    THEN LET r == StopAndRemoveSandboxContainer(cl, b, desc.id)
         IN {Deleted(r.ok, IF r.ok THEN NoDescriptor ELSE desc, r.client, r.backend)}
  ELSE IF desc.type = "daytona"
    THEN IF dt = "None" THEN {Deleted(FALSE, desc, cl, b)}
         ELSE IF ~HasWorkspace(b, desc.id) THEN {Deleted(TRUE, NoDescriptor, cl, b)}
         ELSE {Deleted(TRUE, NoDescriptor, cl,
                       [b EXCEPT !.workspaces = {w \in @ : w.id # desc.id}]),
               Deleted(FALSE, desc, cl, b)}
  ELSE {Deleted(FALSE, NoDescriptor, cl, b)}

\* ------------------------------------------------------------ the browser tool

\* longest stdout of the curl command, in tokens
MaxStdout == 3

\* what stdout is made of: braces, white space, a member "key": value, a comma
StdoutTokens == {"{", "}", " ", "m", ","}

Stdouts == UNION {[1..n -> StdoutTokens] : n \in 0..MaxStdout}

\* str.strip()
RECURSIVE LStrip(_)
LStrip(s) == IF s # << >> /\ Head(s) = " " THEN LStrip(Tail(s)) ELSE s

RECURSIVE RStrip(_)
RStrip(s) == IF s # << >> /\ s[Len(s)] = " " THEN RStrip(SubSeq(s, 1, Len(s) - 1)) ELSE s

Strip(s) == RStrip(LStrip(s))

\* str.startswith('{') and str.endswith('}')
LooksLikeObject(s) == s # << >> /\ Head(s) = "{" /\ s[Len(s)] = "}"

\* json.loads(s) returns: s is one object, its members separated by commas,
\* white space allowed between the tokens
JsonLoads(s) ==
  LET u == SelectSeq(s, LAMBDA t : t # " ")
      inner == SubSeq(u, 2, Len(u) - 1)
  IN /\ Len(u) >= 2
     /\ u[1] = "{"
     /\ u[Len(u)] = "}"
     /\ inner = << >> \/ Len(inner) % 2 = 1
     /\ \A i \in 1..Len(inner) : inner[i] = (IF i % 2 = 1 THEN "m" ELSE ",")

\* one browser action: what sandbox.process.execute does (raises or returns
\* with an exit code and stdout), the endpoint, and what the services behind a
\* parsed response do: the page reports that the element is no input field,
\* the upload of the screenshot fails, or add_message raises
BrowserInputs ==
  [exec : {"raises", "exit_0", "exit_1"}, stdout : Stdouts,
   endpoint : {"navigate_to", "input_text"},
   service : {"ok", "element_error", "upload_fails", "add_message_fails"}]

\* the input of a call that takes none
NoInput == [exec |-> "", stdout |-> << >>, endpoint |-> "", service |-> ""]

\* how a browser action ends: the ToolResult it returns and the browser_state
\* row it wrote, or the exception it raises; cause is the exception caught
BrowserResult(success, cause, insert) ==
  [success |-> success, raised |-> "", cause |-> cause, insert |-> insert]

BrowserRaises(e) == [BrowserResult(FALSE, "", << >>) EXCEPT !.raised = e]

\* the part of _execute_browser_action after the curl command has run, with
\* the exit code not looked at
BrowserResponse_ignores_exit_code(in) ==
  LET stripped == Strip(in.stdout)
  IN IF in.stdout = << >> \/ stripped = << >>
       THEN BrowserResult(FALSE, "", << >>)
     ELSE IF ~LooksLikeObject(stripped)
       THEN BrowserResult(FALSE, "", << >>)
     ELSE IF ~JsonLoads(stripped)
       THEN BrowserResult(FALSE, "JSONDecodeError", << >>)
     ELSE IF in.endpoint = "input_text" /\ in.service = "element_error"
       THEN BrowserResult(FALSE, "", << >>)
     ELSE IF in.service = "add_message_fails"
       THEN BrowserRaises("Exception")
     ELSE BrowserResult(TRUE, "",
            <<"browser_state",
              IF in.service = "upload_fails" THEN "screenshot_base64" ELSE "image_url">>)

\* the part of _execute_browser_action after the curl command has run
BrowserResponse(in) ==
  LET stripped == Strip(in.stdout)
  IN IF in.exec # "exit_0"
       THEN BrowserResult(FALSE, "", << >>)
     ELSE IF in.stdout = << >> \/ stripped = << >>
       THEN BrowserResult(FALSE, "", << >>)
     ELSE IF ~LooksLikeObject(stripped)
       THEN BrowserResult(FALSE, "", << >>)
     ELSE IF ~JsonLoads(stripped)
       THEN BrowserResult(FALSE, "JSONDecodeError", << >>)
     ELSE IF in.endpoint = "input_text" /\ in.service = "element_error"
       THEN BrowserResult(FALSE, "", << >>)
     ELSE IF in.service = "add_message_fails"
       THEN BrowserRaises("Exception")
     ELSE BrowserResult(TRUE, "",
            <<"browser_state",
              IF in.service = "upload_fails" THEN "screenshot_base64" ELSE "image_url">>)

\* sandbox.process.execute(curl_cmd, timeout=30) on the sandbox ensured: the
\* process wrapper of a local container has no such method
ProcessExecute(handle, in) ==
  IF handle.type = "local_docker" THEN "AttributeError"
  ELSE IF in.exec = "raises" THEN "Exception"
  ELSE ""

\* the body of 'try' in _execute_browser_action: the outcome o of
\* _ensure_sandbox, then the curl command and its response
BrowserBody(o, in) ==
  IF o.raised # "" THEN BrowserRaises(o.raised)
  ELSE IF ProcessExecute(o.value, in) # "" THEN BrowserRaises(ProcessExecute(o.value, in))
  ELSE BrowserResponse(in)

\* SandboxBrowserTool._execute_browser_action: whatever its body raises is
\* caught and returned as a failed ToolResult
ExecuteBrowserAction(o, in) ==
  LET r == BrowserBody(o, in)
  IN IF r.raised = "" THEN r ELSE BrowserResult(FALSE, r.raised, << >>)

\* ------------------------------------------------- the record of a call

\* the backend client a sandbox of this type needs cannot be initialised
ClientUnavailable(cl, dt, b, type) ==
  IF type = "local_docker" THEN GetOrInitializeClient(cl, b) = "None"
  ELSE IF type = "daytona" THEN dt = "None"
  ELSE FALSE

\* what a call found: the descriptor, the state of the sandbox it names ("" when
\* the backend holds none), whether the client of its backend could be
\* initialised and whether the Docker daemon answered
Found(cl, dt, b, desc) ==
  [desc |-> desc, state |-> SandboxState(b, desc.type, desc.id),
   unavailable |-> ClientUnavailable(cl, dt, b, desc.type),
   daemon_up |-> b.docker_up]

\* no call yet; iteration is the iteration of run_agent a call was made in
NoCall ==
  [op |-> "", ok |-> FALSE, handle |-> NoHandle, raised |-> "", cause |-> "",
   started |-> FALSE, pre |-> Found("None", "None", EmptyBackend, NoDescriptor),
   post |-> Found("None", "None", EmptyBackend, NoDescriptor),
   input |-> NoInput, iteration |-> 0, config |-> "unset",
   prev |-> [op |-> "", ok |-> FALSE, handle |-> NoHandle]]

\* the record of a call: its outcome o, what it found and what it left
Called(op, o, desc_after, in) ==
  [op |-> op, ok |-> o.ok, handle |-> o.value, raised |-> o.raised, cause |-> o.cause,
   started |-> o.started,
   pre |-> Found(client, daytona, backend, project_sandbox),
   post |-> Found(o.client, daytona, o.backend, desc_after),
   input |-> in, iteration |-> iteration_count, config |-> daytona_config,
   prev |-> [op |-> call.op, ok |-> call.ok, handle |-> call.handle]]

\* ------------------------------------- the callers of the local Docker handler

\* the coroutines of the process that call provider operations
MaxCallers == 2

Callers == 1..MaxCallers

\* the operations the callers make in all
MaxOperations == 2

\* the provider operations that reach local_docker_handler: get_or_start_sandbox,
\* create_sandbox, delete_sandbox, fs.create_folder, fs.upload_file, fs.list_files
Operations == {"ensure", "create", "remove", "exec", "upload", "list"}

\* 'if client is None' of _get_or_initialize_client: whether the call tries to
\* connect (the unix socket, then docker.from_env)
InitializationAttempted(cl) == cl = "None"

\* the exit codes a command gives when exec_run runs it in the container
CommandExits == {0, 1}

\* execute_command_in_container: the exit code (-1 without a client, when the
\* daemon does not answer, the container is missing or does not run; else
\* ran, the exit code of the command) and the cached client it leaves
ExecuteCommandInContainer(cl, b, id, ran) ==
  LET cur == GetOrInitializeClient(cl, b)
  IN [exit_code |-> IF cur = "None" THEN -1
                    ELSE IF ~b.docker_up \/ ~HasContainer(b, id) THEN -1
                    ELSE IF ContainerStatus(b, id) # "running" THEN -1
                    ELSE ran,
      client |-> cur]

\* what an operation on the files of a container gives: its result, the
\* cached client it leaves and the cached client each call of
\* _get_or_initialize_client found
FsResult(ok, cl, found) == [ok |-> ok, client |-> cl, found |-> found]

\* a command create_folder executed, with the exit code it got
Executed(command, exit_code) == [command |-> command, exit_code |-> exit_code]

\* create_folder that sets the permissions whatever mkdir gave
CreateFolder_chmod_always(cl, b, id, ran) ==
  LET mkdir == ExecuteCommandInContainer(cl, b, id, ran.mkdir)
      chmod == ExecuteCommandInContainer(mkdir.client, b, id, ran.chmod)
  IN [ok |-> mkdir.exit_code = 0 /\ chmod.exit_code = 0, client |-> chmod.client,
      found |-> <<cl, mkdir.client>>,
      commands |-> <<Executed("mkdir", mkdir.exit_code), Executed("chmod", chmod.exit_code)>>]

\* LocalDockerFileSystemWrapper.create_folder: mkdir, then chmod; ran gives
\* the exit code each command has when it runs; commands are the calls of
\* execute_command_in_container it made
CreateFolder(cl, b, id, ran) ==
  LET mkdir == ExecuteCommandInContainer(cl, b, id, ran.mkdir)
      chmod == ExecuteCommandInContainer(mkdir.client, b, id, ran.chmod)
  IN IF mkdir.exit_code # 0
       THEN [ok |-> FALSE, client |-> mkdir.client, found |-> <<cl>>,
             commands |-> <<Executed("mkdir", mkdir.exit_code)>>]
     ELSE IF chmod.exit_code # 0
       THEN [ok |-> FALSE, client |-> chmod.client, found |-> <<cl, mkdir.client>>,
             commands |-> <<Executed("mkdir", mkdir.exit_code),
                            Executed("chmod", chmod.exit_code)>>]
     ELSE [ok |-> TRUE, client |-> chmod.client, found |-> <<cl, mkdir.client>>,
           commands |-> <<Executed("mkdir", mkdir.exit_code),
                          Executed("chmod", chmod.exit_code)>>]

\* upload_files_to_container
UploadFilesToContainer(cl, b, id) ==
  LET cur == GetOrInitializeClient(cl, b)
  IN FsResult(cur # "None" /\ b.docker_up /\ HasContainer(b, id), cur, <<cl>>)

\* list_files_in_container: [] without a client or when ls fails
ListFilesInContainer(cl, b, id) ==
  LET cur == GetOrInitializeClient(cl, b)
  IN FsResult(/\ cur # "None"
              /\ b.docker_up
              /\ HasContainer(b, id)
              /\ ContainerStatus(b, id) = "running", cur, <<cl>>)

\* the cached client each call of _get_or_initialize_client finds while
\* get_or_start_sandbox runs: the call of get_sandbox_container_status and,
\* before a start, the call of the start branch
EnsureFinds(cl, b, desc) ==
  IF ~desc.present \/ desc.type # "local_docker" \/ desc.id = 0 THEN << >>
  ELSE IF GetSandboxContainerStatus(cl, b, desc.id) \in {"created", "exited", "stopped"}
    THEN <<cl, GetOrInitializeClient(cl, b)>>
  ELSE <<cl>>

\* the same for delete_sandbox: the call of stop_and_remove_sandbox_container
\* and, when that returned False, the call that looks whether the client is None
DeleteFinds(cl, b, desc) ==
  IF ~desc.present \/ desc.type # "local_docker" \/ desc.id = 0 THEN << >>
  ELSE LET r == StopAndRemoveSandboxContainer(cl, b, desc.id)
       IN IF r.ok THEN <<cl>> ELSE <<cl, r.client>>

\* what a provider operation does in the process: its result, the cached
\* client, the backend and the descriptor it leaves, and the cached client each
\* call of _get_or_initialize_client found
Ran(ok, cl, b, desc, found) ==
  [ok |-> ok, client |-> cl, backend |-> b, desc |-> desc, found |-> found,
   commands |-> << >>]

\* the operation op of a caller that read the descriptor read, on the project
\* whose descriptor is now desc
RunOperation(op, cl, dt, b, read, desc) ==
  IF op = "ensure"
    THEN {Ran(o.ok, o.client, o.backend, desc, EnsureFinds(cl, b, read)) :
            o \in GetOrStartSandbox(cl, dt, b, read)}
  ELSE IF op = "create"
    THEN {Ran(o.ok, o.client, o.backend, RecordDescriptor(desc, o), <<cl>>) :
            o \in CreateSandbox("local_docker", cl, dt, b, ProjectId)}
  ELSE IF op = "remove"
    THEN {Ran(o.ok, o.client, o.backend, IF o.desc = read THEN desc ELSE o.desc,
              DeleteFinds(cl, b, read)) :
            o \in DeleteSandbox(cl, dt, b, read)}
  ELSE IF op = "exec"
    THEN {[Ran(r.ok, r.client, b, desc, r.found) EXCEPT !.commands = r.commands] :
            r \in {CreateFolder(cl, b, read.id, ran) :
                     ran \in [{"mkdir", "chmod"} -> CommandExits]}}
  ELSE LET r == IF op = "upload" THEN UploadFilesToContainer(cl, b, read.id)
                ELSE ListFilesInContainer(cl, b, read.id)
       IN {Ran(r.ok, r.client, b, desc, r.found)}

\* the number of the calls of _get_or_initialize_client that tried to connect
Attempts(found) ==
  Cardinality({i \in DOMAIN found : InitializationAttempted(found[i])})

\* a caller that has called nothing. op and pc: the operation and whether it
\* was called and is waiting to run, or done; read: the descriptor it read;
\* ok: its result; calls and attempts: its calls of _get_or_initialize_client
\* and those that tried to connect; found, got and left: the client object (0:
\* None) cached before it ran, returned to it, and cached after it;
\* daemon_up: whether the daemon answered; seen: the outcomes of the
\* initialisations other callers made while it was waiting
IdleCaller ==
  [op |-> "", pc |-> "idle", read |-> NoDescriptor, ok |-> FALSE, calls |-> 0,
   attempts |-> 0, found |-> 0, got |-> 0, left |-> 0, daemon_up |-> FALSE, seen |-> {},
   commands |-> << >>]

\* a process in which no client object has been built: objects counts the
\* DockerClient objects built, current is the cached one (0: None), begun
\* counts the operations called
CallersInit ==
  [objects |-> 0, current |-> 0, begun |-> 0, co |-> [p \in Callers |-> IdleCaller]]

\* --------------------------------------- processes that ensure the same sandbox

\* the processes (API server, agent workers) that call get_or_start_sandbox
\* for the project; each has its own Docker client, all talk to one daemon
MaxWorkers == 2

Workers == 1..MaxWorkers

\* a process outside get_or_start_sandbox. pc: where the call stands; status:
\* what get_sandbox_container_status returned to it; redundant: whether the
\* container ran already when its start was issued; post: the container's
\* status when the call returned
IdleWorker ==
  [pc |-> "idle", client |-> "None", status |-> "", ok |-> FALSE, handle |-> NoHandle,
   started |-> FALSE, redundant |-> FALSE, post |-> ""]

\* the start branch of get_or_start_sandbox refusing a container that runs
StartExistingContainer_refuses_running(cl, b, id) ==
  IF cl = "None" \/ ~b.docker_up \/ ~HasContainer(b, id)
     \/ ContainerStatus(b, id) \in {"paused", "running"}
    THEN [ok |-> FALSE, backend |-> b]
    ELSE [ok |-> TRUE, backend |-> SetContainerStatus(b, id, "running")]

\* the start branch of get_or_start_sandbox: containers.get(id).start() and
\* reload(); any exception gives None. The daemon starts a created or exited
\* container, answers 'already started' without error for one that runs, and
\* refuses a paused one
StartExistingContainer(cl, b, id) ==
  IF cl = "None" \/ ~b.docker_up \/ ~HasContainer(b, id)
     \/ ContainerStatus(b, id) = "paused"
    THEN [ok |-> FALSE, backend |-> b]
    ELSE [ok |-> TRUE, backend |-> SetContainerStatus(b, id, "running")]

\* ------------------------------------------------------------ the XML tool parser

\* the longest xml_string drawn over all pieces of markup
MaxXml == 4

\* the longest body of a function_calls block drawn over the pieces of Format A
MaxBlock == 4

\* an xml_string is a sequence of pieces: a start tag, an end tag, an empty
\* element, a leaf (start tag, character data, end tag), character data,
\* white space, or a '<' that starts nothing. name is the value of the
\* attribute 'name' ("": none), attrib the other attributes, text the
\* character data of a leaf
Piece(kind, tag, name, attrib, text) ==
  [kind |-> kind, tag |-> tag, name |-> name, attrib |-> attrib, text |-> text]

XmlPieces ==
  {Piece("start", "function_calls", "", {}, << >>),
   Piece("end", "function_calls", "", {}, << >>),
   Piece("start", "Tools", "", {}, << >>),
   Piece("end", "Tools", "", {}, << >>),
   Piece("empty", "invoke", "ls", {}, << >>),
   Piece("empty", "invoke", "", {}, << >>),
   Piece("start", "cat", "", {}, << >>),
   Piece("end", "cat", "", {}, << >>),
   Piece("empty", "web-search", "", {[name |-> "q", value |-> <<"x">>]}, << >>),
   Piece("text", "", "", {}, <<"t">>),
   Piece("space", "", "", {}, <<" ">>),
   Piece("stray", "", "", {}, << >>)}

\* the tool elements the long inputs are made of: Format A and Format B
ToolPieces ==
  {x \in XmlPieces : x.kind = "empty" /\ (x.tag = "invoke" => x.name # "")}

\* the pieces of a Format A block: invoke elements with and without a name,
\* parameter children with and without a name and with white space around
\* their text, and a child that is no parameter
InvokePieces ==
  {Piece("start", "invoke", "create_file", {}, << >>),
   Piece("start", "invoke", "", {}, << >>),
   Piece("end", "invoke", "", {}, << >>),
   Piece("leaf", "parameter", "path", {}, <<"a.txt">>),
   Piece("leaf", "parameter", "content", {}, <<" ", "hi", " ">>),
   Piece("leaf", "parameter", "path", {}, <<" ", "b">>),
   Piece("leaf", "parameter", "", {}, <<"c">>),
   Piece("leaf", "note", "", {}, <<"n">>)}

\* the inputs of parse: every sequence of up to MaxXml pieces, every run of up
\* to MaxTags tool elements, and every function_calls block whose body has up
\* to MaxBlock pieces of Format A
XmlStrings ==
  UNION {[1..n -> XmlPieces] : n \in 0..MaxXml}
    \cup UNION {[1..n -> ToolPieces] : n \in (MaxXml + 1)..MaxTags}
    \cup {<<Piece("start", "function_calls", "", {}, << >>)>> \o body
            \o <<Piece("end", "function_calls", "", {}, << >>)>> :
            body \in UNION {[1..n -> InvokePieces] : n \in 1..MaxBlock}}

\* str.lower on the tags of the pieces
Lower(tag) == IF tag = "Tools" THEN "tools" ELSE tag

\* str.strip on the input: the white space at its ends is dropped
RECURSIVE XmlStrip(_)
XmlStrip(pieces) ==
  IF pieces = << >> THEN << >>
  ELSE IF Head(pieces).kind = "space" THEN XmlStrip(Tail(pieces))
  ELSE IF pieces[Len(pieces)].kind = "space"
    THEN XmlStrip(SubSeq(pieces, 1, Len(pieces) - 1))
  ELSE pieces

\* the character data that follows a start tag, up to the first child: Element.text
RECURSIVE LeadingText(_)
LeadingText(pieces) ==
  IF pieces # << >> /\ Head(pieces).kind \in {"text", "space"}
    THEN Head(pieces).text \o LeadingText(Tail(pieces))
    ELSE << >>

\* an element of the tree ET.fromstring builds
Element(piece, children, text) ==
  [tag |-> piece.tag, attrib |-> piece.attrib, name |-> piece.name,
   children |-> children, text |-> text]

\* the failure of ET.fromstring: ET.ParseError
ParseError == [ok |-> FALSE, elements |-> << >>, rest |-> << >>]

\* the elements ET.fromstring reads up to the end tag of the element open
\* ("": up to the end of the input), and the pieces that follow the end tag
RECURSIVE ReadElements(_, _)
ReadElements(pieces, open) ==
  IF pieces = << >>
    THEN IF open = "" THEN [ok |-> TRUE, elements |-> << >>, rest |-> << >>] ELSE ParseError
  ELSE LET h == Head(pieces) IN
    CASE h.kind \in {"text", "space"} -> ReadElements(Tail(pieces), open)
      [] h.kind = "stray" -> ParseError
      [] h.kind = "end" ->
           IF h.tag = open THEN [ok |-> TRUE, elements |-> << >>, rest |-> Tail(pieces)]
           ELSE ParseError
      [] h.kind \in {"empty", "leaf"} ->
           LET more == ReadElements(Tail(pieces), open)
           IN IF more.ok THEN [more EXCEPT !.elements = <<Element(h, << >>, h.text)>> \o @]
              ELSE ParseError
      [] h.kind = "start" ->
           LET inner == ReadElements(Tail(pieces), h.tag)
               more == ReadElements(inner.rest, open)
           IN IF inner.ok /\ more.ok
                THEN [more EXCEPT !.elements =
                        <<Element(h, inner.elements, LeadingText(Tail(pieces)))>> \o @]
                ELSE ParseError

\* ET.fromstring of the input wrapped in <dummy_root>: the children of the root
FromString(xml_string) ==
  LET read == ReadElements(xml_string \o <<Piece("end", "dummy_root", "", {}, << >>)>>,
                           "dummy_root")
  IN IF read.ok /\ read.rest = << >> THEN read ELSE ParseError

\* the loop over temp_elements_to_check with the children of a container put
\* at the end of the list
FlattenContainers_appends_children(temp_elements_to_check, final_tool_elements) ==
  LET RECURSIVE Loop(_, _)
      Loop(todo, final) ==
        IF todo = << >> THEN final
        ELSE LET element == Head(todo)
             IN IF Lower(element.tag) \in {"function_calls", "tools", "dummy_root"}
                  THEN Loop(Tail(todo) \o element.children, final)
                  ELSE Loop(Tail(todo), Append(final, element))
  IN Loop(temp_elements_to_check, final_tool_elements)

\* the loop over temp_elements_to_check: a container is replaced by its
\* children at the front of the list, any other element is a tool element
RECURSIVE FlattenContainers(_, _)
FlattenContainers(temp_elements_to_check, final_tool_elements) ==
  IF temp_elements_to_check = << >> THEN final_tool_elements
  ELSE LET element == Head(temp_elements_to_check)
       IN IF Lower(element.tag) \in {"function_calls", "tools", "dummy_root"}
            THEN FlattenContainers(element.children \o Tail(temp_elements_to_check),
                                   final_tool_elements)
            ELSE FlattenContainers(Tail(temp_elements_to_check),
                                   Append(final_tool_elements, element))

\* the text of a parameter taken as it stands
ParamValue_unstripped(param_element) == param_element.text

\* param_element.text.strip() if param_element.text else ""
ParamValue(param_element) == Strip(param_element.text)

\* tool_kwargs[param_name] = param_value
Put(tool_kwargs, param_name, param_value) ==
  {e \in tool_kwargs : e.name # param_name}
    \cup {[name |-> param_name, value |-> param_value]}

\* the loop over the children of an invoke element: each parameter child
\* with a name gives an entry
RECURSIVE InvokeKwargs(_, _)
InvokeKwargs(children, tool_kwargs) ==
  IF children = << >> THEN tool_kwargs
  ELSE LET param_element == Head(children)
       IN InvokeKwargs(Tail(children),
                       IF Lower(param_element.tag) = "parameter" /\ param_element.name # ""
                         THEN Put(tool_kwargs, param_element.name, ParamValue(param_element))
                         ELSE tool_kwargs)

\* the loop over the children of a Format B element: each child gives an
\* entry under its tag
RECURSIVE InlineKwargs(_, _)
InlineKwargs(children, tool_kwargs) ==
  IF children = << >> THEN tool_kwargs
  ELSE InlineKwargs(Tail(children),
                    Put(tool_kwargs, Head(children).tag, ParamValue(Head(children))))

\* element.attrib.items(): the attribute 'name' with the others
Attrib(element) ==
  element.attrib
    \cup (IF element.name # "" THEN {[name |-> "name", value |-> <<element.name>>]} ELSE {})

\* the ToolCall of a tool element: tool_name ("" for None) and tool_kwargs
ToolCall(element) ==
  IF Lower(element.tag) = "invoke"
    THEN [tool_name |-> element.name,
          tool_kwargs |-> InvokeKwargs(element.children, {})]
    ELSE [tool_name |-> element.tag,
          tool_kwargs |-> InlineKwargs(element.children, Attrib(element))]

\* what parse gives: parsed is FALSE for None, raised names the exception
\* that leaves it
Parsed(tool_calls) == [parsed |-> TRUE, tool_calls |-> tool_calls, raised |-> ""]

ParsedNone == [parsed |-> FALSE, tool_calls |-> << >>, raised |-> ""]

ParseRaises(exception) == [parsed |-> FALSE, tool_calls |-> << >>, raised |-> exception]

\* the tool calls made from the tool elements, those without a name left out
RECURSIVE ToolCalls(_)
ToolCalls(final_tool_elements) ==
  IF final_tool_elements = << >> THEN << >>
  ELSE LET c == ToolCall(Head(final_tool_elements))
       IN (IF c.tool_name # "" THEN <<c>> ELSE << >>) \o ToolCalls(Tail(final_tool_elements))

\* parse up to its except clause
ParseBody(xml_string) ==
  IF xml_string = << >> \/ XmlStrip(xml_string) = << >> THEN Parsed(<< >>)
  ELSE LET root == FromString(XmlStrip(xml_string))
       IN IF root.ok THEN Parsed(ToolCalls(FlattenContainers(root.elements, << >>)))
          ELSE ParseRaises("ParseError")

\* parse without 'except ET.ParseError'
Parse_without_except(xml_string) == ParseBody(xml_string)

\* XMLToolParser.parse
Parse(xml_string) ==
  IF ParseBody(xml_string).raised = "ParseError" THEN ParsedNone
  ELSE ParseBody(xml_string)

\* ------------------------------------------------------- the LLM API call

\* the number of make_llm_api_call coroutines of the process
MaxCalls == 2

LlmCalls == 1..MaxCalls

\* the attempts of make_llm_api_call
MAX_RETRIES == 2

\* what 'await litellm.acompletion' gives: a response or an exception; the
\* last stands for every exception that is none of the three before it
CompletionOutcomes ==
  {"response", "RateLimitError", "OpenAIError", "JSONDecodeError", "Exception"}

\* the exceptions of the first except clause
Retryable == {"RateLimitError", "OpenAIError", "JSONDecodeError"}

\* handle_error: the delay it sleeps
HandleErrorDelay(error) ==
  IF error = "RateLimitError" THEN "RATE_LIMIT_DELAY" ELSE "RETRY_DELAY"

\* a loop that makes one attempt more than MAX_RETRIES
InRange_one_more(attempt) == attempt <= MAX_RETRIES

\* whether 'for attempt in range(MAX_RETRIES)' has a round for attempt
InRange(attempt) == attempt < MAX_RETRIES

\* a make_llm_api_call that was not called. pc: "acompletion" and "sleep" are
\* its awaits; outcomes: what each acompletion it awaited gave
IdleLlmCall ==
  [pc |-> "idle", attempt |-> 0, last_error |-> "", delay |-> "", raised |-> "",
   outcomes |-> << >>]

\* the round for attempt, or the statements after the loop
LoopRound(c, attempt) ==
  IF InRange(attempt) THEN [c EXCEPT !.pc = "acompletion", !.attempt = attempt]
  ELSE [c EXCEPT !.pc = "raised", !.raised = "LLMRetryError"]

\* ------------------------------------------------- the execution of a tool call

\* the tools a registry holds at most
MaxTools == 2

\* the names of tool calls: words joined by '-' and '_'
FunctionNames ==
  {<<"a", "_", "b", "_", "c">>, <<"a", "-", "b", "-", "c">>, <<"a", "-", "b", "_", "c">>,
   <<"x", "_", "y", "_", "z">>, <<"x", "-", "y", "-", "z">>,
   <<"a", "_", "b">>, <<"a", "-", "b">>, <<"tool">>}

\* function_name.replace('-', '_')
Normalize(function_name) ==
  [i \in DOMAIN function_name |-> IF function_name[i] = "-" THEN "_" ELSE function_name[i]]

\* the canonical names: the names of the methods of the tools
CanonicalNames == {n \in FunctionNames : Normalize(n) = n}

\* the registries: the operations registered, each under its canonical name
Registries == {r \in SUBSET CanonicalNames : Cardinality(r) <= MaxTools}

\* the arguments of a tool call
ToolArguments == {{}, {"param1"}}

\* an entry of the registry: the instance and the schema of the operation
NoTool == [found |-> FALSE, handler |-> << >>, schema |-> << >>]

Registered(name) == [found |-> TRUE, handler |-> name, schema |-> name]

\* a lookup that never normalizes
Resolve_exact_only(tools, name) ==
  IF name \in tools THEN Registered(name) ELSE NoTool

\* ToolRegistry.resolve: the exact name, and on a miss the normalized name
Resolve(tools, name) ==
  IF name \in tools THEN Registered(name)
  ELSE IF Normalize(name) \in tools THEN Registered(Normalize(name))
  ELSE NoTool

\* a ToolResult, with the handler that ran and the arguments it got
ToolResult(success, ran, arguments) ==
  [success |-> success, ran |-> ran, arguments |-> arguments, raised |-> ""]

\* ResponseProcessor._execute_tool: the handler of the resolved tool runs
\* with the arguments of the call; without a tool the result is a failure
ExecuteTool(tools, tool_call) ==
  LET tool == Resolve(tools, tool_call.function_name)
  IN IF tool.found THEN ToolResult(TRUE, tool.handler, tool_call.arguments)
     ELSE ToolResult(FALSE, << >>, {})

NoLlm == << >>

NoDispatch ==
  [tools |-> {}, function_name |-> << >>, arguments |-> {}, done |-> FALSE,
   result |-> ToolResult(FALSE, << >>, {})]

\* the values of callers, workers and parser while they are not in use
NoCallers == << >>
NoWorkers == << >>
NoParse ==
  [xml_string |-> << >>, done |-> FALSE, parsed |-> FALSE, tool_calls |-> << >>,
   raised |-> ""]

\* a process that has called no sandbox function, on a project without sandbox
SandboxInit ==
  /\ sandbox_provider = "local_docker"
  /\ client = "None"
  /\ daytona = "None"
  /\ backend = EmptyBackend
  /\ project_sandbox = NoDescriptor
  /\ tool_sandbox = NoHandle
  /\ call = NoCall
  /\ daytona_config = "unset"

\* the backends and the descriptor a process may find when it starts: no
\* sandbox, or the sandbox an earlier process created for the project
InitWorlds ==
  {[backend |-> EmptyBackend, desc |-> NoDescriptor]}
  \cup {[backend |-> [EmptyBackend EXCEPT
                        !.containers = {[id |-> 1, name |-> ContainerName(ProjectId),
                                         status |-> s]},
                        !.next_id = 2],
         desc |-> Descriptor("local_docker", 1)] : s \in {"running", "exited"}}
  \cup {[backend |-> [EmptyBackend EXCEPT
                        !.workspaces = {[id |-> 1, label |-> ProjectId, state |-> s]},
                        !.next_id = 2],
         desc |-> Descriptor("daytona", 1)] : s \in {"started", "stopped"}}

\* the Daytona client the import of sandbox.py leaves: None without the keys,
\* None as well when the constructor raised
DaytonaAtImport(cfg) == IF cfg = "set" THEN {"None", "Daytona"} ELSE {"None"}

\* a process starts: SANDBOX_TYPE and the Daytona keys are read, no Docker
\* client is cached, the daemon runs or not
WorldStart(first) ==
  /\ sandbox_provider \in SandboxTypes
  /\ client = "None"
  /\ daytona_config \in {"unset", "set"}
  /\ daytona \in DaytonaAtImport(daytona_config)
  /\ \E w \in InitWorlds, up \in BOOLEAN :
       /\ backend = [w.backend EXCEPT !.docker_up = up]
       /\ project_sandbox = w.desc
  /\ tool_sandbox = NoHandle
  /\ call = first

WorldInit == WorldStart(NoCall)

\* --------------------------------------------------------- the start of a run

\* no coroutine is inside a Docker handler call, no second process runs, and
\* nothing is being parsed
ServicesIdle ==
  /\ llm = NoLlm
  /\ dispatch = NoDispatch

AuxIdle ==
  /\ callers = NoCallers
  /\ workers = NoWorkers
  /\ parser = NoParse
  /\ ServicesIdle

DriverInit ==
  /\ stream \in BOOLEAN
  /\ pc = "while"
  /\ iteration_count = 0
  /\ continue_execution = TRUE
  /\ last_tool_name = ""
  /\ last_tool_call = ""
  /\ agent_should_terminate = FALSE
  /\ error_detected = FALSE
  /\ full_response = << >>
  /\ temporary_message = << >>
  /\ \E rows \in InitThreads :
       /\ messages = Numbered(rows)
       /\ next_id = Len(rows) + 1
  /\ rp = RpIdle
  /\ events = << >>
  /\ llm_calls = 0
  /\ iter_llm_calls = 0
  /\ hist = HistInit

\* the start of a run: its own state and the sandbox of its project
Init == DriverInit /\ SandboxInit /\ AuxIdle

\* ------------------------------------------------------- the iteration loop

\* the loop test with an off-by-one comparison
LoopCondition_off_by_one == continue_execution /\ iteration_count <= max_iterations

\* while continue_execution and iteration_count < max_iterations
LoopCondition == continue_execution /\ iteration_count < max_iterations

\* the loop test and the head of the loop body
LoopTest ==
  /\ pc = "while"
  /\ IF LoopCondition
       THEN /\ iteration_count' = iteration_count + 1
            /\ last_tool_name' = ""
            /\ events' = << >>
            /\ iter_llm_calls' = 0
            /\ hist' = [hist EXCEPT !.error_chunk = FALSE, !.read_on = FALSE,
                                    !.received = << >>, !.last_kind = "",
                                    !.scheduled = << >>, !.results = << >>,
                                    !.late_start = FALSE, !.warnings = 0,
                                    !.excess = 0]
            /\ pc' = "billing"
       ELSE /\ pc' = "done"
            /\ hist' = [hist EXCEPT !.exit = "loop"]
            /\ UNCHANGED <<iteration_count, last_tool_name, events, iter_llm_calls>>
  /\ UNCHANGED <<stream, continue_execution, last_tool_call, agent_should_terminate,
                 error_detected, full_response, temporary_message, messages, next_id,
                 rp, llm_calls>>
  /\ UNCHANGED <<sandbox_vars, aux_vars>>

\* what the driver yields when billing refuses the run
BillingEvent(message) ==
  IF stream THEN Event("error", "", <<"Billing limit reached: ", message>>, "", FALSE)
            ELSE Event("status", "stopped", <<"Billing limit reached: ", message>>, "", FALSE)

\* the refusal branch without its break
BillingRefusedPc_no_break == "last_message"

\* where the refusal branch leaves the coroutine: break
BillingRefusedPc == "done"

\* check_billing_status and the refusal branch
BillingCheck ==
  /\ pc = "billing"
  /\ \E can_run \in BOOLEAN, message \in ExcMsgs :
       IF ~can_run
         THEN /\ events' = Append(events, BillingEvent(message))
              /\ hist' = [hist EXCEPT !.exit = "billing"]
              /\ pc' = BillingRefusedPc
         ELSE /\ pc' = "last_message"
              /\ UNCHANGED <<events, hist>>
  /\ UNCHANGED <<stream, iteration_count, continue_execution, last_tool_name,
                 last_tool_call, agent_should_terminate, error_detected, full_response,
                 temporary_message, messages, next_id, rp, llm_calls, iter_llm_calls>>
  /\ UNCHANGED <<sandbox_vars, aux_vars>>

\* a last-message check that never finds an assistant row
LastMessageIsAssistant_never(msgs) == FALSE

\* the last-message check comparing with the wrong type
LastMessageIsAssistant_checks_user(msgs) ==
  /\ RowsOfTypes(msgs, ConversationTypes) # {}
  /\ Latest(msgs, ConversationTypes).type = "user"

\* the latest assistant, tool or user row exists and is an assistant row
LastMessageIsAssistant(msgs) ==
  /\ HasLatest(msgs, ConversationTypes)
  /\ Latest(msgs, ConversationTypes).type = "assistant"

\* the query for the latest assistant, tool or user row, and the exit on assistant
LastMessageCheck ==
  /\ pc = "last_message"
  /\ IF LastMessageIsAssistant(messages)
       THEN /\ continue_execution' = FALSE
            /\ pc' = "done"
       ELSE /\ pc' = "temp_message"
            /\ UNCHANGED continue_execution
  /\ hist' = [hist EXCEPT
       !.last_kind = IF \E i \in 1..Len(messages) : messages[i].type \in ConversationTypes
                       THEN Latest(messages, ConversationTypes).type ELSE "none",
       !.exit = IF pc' = "done" THEN "last_assistant" ELSE @]
  /\ UNCHANGED <<stream, iteration_count, last_tool_name, last_tool_call,
                 agent_should_terminate, error_detected, full_response,
                 temporary_message, messages, next_id, rp, events, llm_calls,
                 iter_llm_calls>>
  /\ UNCHANGED <<sandbox_vars, aux_vars>>

\* the browser_state blocks of this iteration's temporary message
BrowserBlocks(msgs) ==
  IF HasLatest(msgs, {"browser_state"})
    THEN BrowserParts(Latest(msgs, {"browser_state"})) ELSE << >>

\* the image_context blocks of this iteration's temporary message
ImageBlocks(msgs) ==
  IF HasLatest(msgs, {"image_context"})
    THEN ImageParts(Latest(msgs, {"image_context"})) ELSE << >>

\* the rows after the image_context branch
AfterImageContext(msgs) ==
  IF HasLatest(msgs, {"image_context"})
    THEN ConsumeImageContext(msgs, Latest(msgs, {"image_context"})) ELSE msgs

\* the image_context rows a temporary message carries, by their caption blocks
CaptionIds(tm) ==
  LET caps == SelectSeq(tm, LAMBDA p : p.url = "caption")
  IN [i \in 1..Len(caps) |-> caps[i].msg]

\* temporary message handling: browser state, image context, one-shot deletion
BuildTemporaryMessage ==
  /\ pc = "temp_message"
  /\ temporary_message' = BrowserBlocks(messages) \o ImageBlocks(messages)
  /\ messages' = AfterImageContext(messages)
  /\ hist' = [hist EXCEPT
       !.built = TRUE,
       !.bs_used = IF HasLatest(messages, {"browser_state"})
                     THEN Latest(messages, {"browser_state"}).message_id ELSE 0,
       !.bs_inserted = FALSE,
       !.bs_fresh = hist.bs_inserted,
       !.deleted = @ \cup {m.message_id : m \in Range(messages) \ Range(messages')},
       !.included = @ \o CaptionIds(temporary_message')]
  /\ pc' = "run_thread"
  /\ UNCHANGED <<stream, iteration_count, continue_execution, last_tool_name,
                 last_tool_call, agent_should_terminate, error_detected, full_response,
                 next_id, rp, events, llm_calls, iter_llm_calls>>
  /\ UNCHANGED <<sandbox_vars, aux_vars>>

\* --------------------------------------------- the response stream (producer)

\* a terminator tag closes in this piece of assistant text
ClosesTerminator(text) == \E i \in 1..Len(text) : text[i] \in TerminatorTags

\* the row a tool writes to the thread when it completes, or << >>
RpToolInserts(name) ==
  CASE name = "browser-navigate-to" ->
         {<<"browser_state", "image_url">>}
    [] OTHER -> {<< >>}

\* the arguments of the run_thread call that the stream depends on
RunThreadArgs_cap_eleven == [max_xml_tool_calls |-> 11]

RunThreadArgs == [max_xml_tool_calls |-> max_xml_tool_calls]

\* the scheduling test without the look at the terminator
RpMaySchedule_ignores_terminator(r) == r.tools < RunThreadArgs.max_xml_tool_calls

\* a tool tag closing now is scheduled: no terminator tag closed before it and
\* the cap of the response is not reached
RpMaySchedule(r) == ~r.terminator /\ r.tools < RunThreadArgs.max_xml_tool_calls

\* the steps the stream may take next, each the chunk it yields and the row a
\* tool wrote: while the LLM streams, text, tool starts and errors; at the end
\* of the LLM stream, one result per scheduled tool in source order, then the
\* terminal status if a terminator tag closed
RpSteps(r) ==
  (IF r.len < MaxChunks /\ ~r.draining
     THEN {[chunk |-> AssistantChunk(t), insert |-> << >>] : t \in Texts}
          \cup {[chunk |-> ErrorChunk(<<m>>), insert |-> << >>] : m \in {"e1"}}
     ELSE {})
  \cup
  (IF r.len < MaxChunks /\ ~r.draining /\ RpMaySchedule(r)
     THEN {[chunk |-> StatusChunk("tool_started", n, FALSE), insert |-> << >>] :
             n \in ToolNames}
     ELSE {})
  \cup
  (IF r.pending # << >>
     THEN {[chunk |-> StatusChunk("tool_completed", Head(r.pending), FALSE), insert |-> row] :
             row \in RpToolInserts(Head(r.pending))}
          \cup {[chunk |-> StatusChunk(st, Head(r.pending), FALSE), insert |-> << >>] :
                  st \in {"tool_failed", "tool_error"}}
     ELSE {})
  \cup
  (IF r.terminator /\ r.pending = << >> /\ ~r.final_sent
     THEN {[chunk |-> StatusChunk("finish", "", TRUE), insert |-> << >>]}
     ELSE {})

\* the stream state after it has yielded chunk c
RpAfter(r, c) ==
  CASE c.type = "assistant" ->
         [r EXCEPT !.len = @ + 1, !.terminator = @ \/ ClosesTerminator(c.text)]
    [] c.type = "status" /\ c.status = "error" -> [r EXCEPT !.len = @ + 1]
    [] c.type = "status" /\ c.status_type = "tool_started" ->
         [r EXCEPT !.len = @ + 1, !.tools = @ + 1, !.pending = Append(@, c.name)]
    [] c.type = "status" /\ c.status_type \in {"tool_completed", "tool_failed", "tool_error"} ->
         [r EXCEPT !.draining = TRUE, !.pending = Tail(@), !.executed = @ + 1]
    [] c.type = "status" /\ c.status_type = "warning" ->
         [r EXCEPT !.len = @ + 1, !.warned = TRUE]
    [] c.type = "status" /\ c.terminate -> [r EXCEPT !.draining = TRUE, !.final_sent = TRUE]
    [] OTHER -> r

\* the steps of a response made of tool tags only, up to MaxTags of them: a tag
\* within the cap starts its tool, the first tag beyond it yields the warning;
\* at the end of the LLM stream every scheduled execution completes
RpCapSteps(r) ==
  (IF r.len < MaxTags /\ ~r.draining
     THEN IF RpMaySchedule(r)
            THEN {[chunk |-> StatusChunk("tool_started", "execute-command", FALSE),
                   insert |-> << >>]}
          ELSE IF ~r.warned
            THEN {[chunk |-> StatusChunk("warning", "", FALSE), insert |-> << >>]}
          ELSE {}
     ELSE {})
  \cup {st \in RpSteps(r) : st.chunk.status_type = "tool_completed"}

\* the stream may end: every scheduled execution joined, terminal status sent
RpCanEnd(r) == r.open /\ r.pending = << >> /\ (r.terminator => r.final_sent)

\* rows persisted at the end of a stream: the assistant message, then one tool
\* message per executed tool
RpPersist(msgs, id, r) ==
  msgs \o <<Message(id, "assistant", "text")>>
       \o [i \in 1..r.executed |-> Message(id + i, "tool", "text")]

\* ------------------------------------------ the driver's handling of a chunk

IsErrorChunk(c) == c.type = "status" /\ c.status = "error"

ToolStatusTypes == {"tool_started", "tool_completed", "tool_failed", "tool_error"}

\* the tag name the driver derives from assistant text holding a terminator
XmlTool(text) ==
  IF \E i \in 1..Len(text) : text[i] = "</ask>" THEN "ask"
  ELSE IF \E i \in 1..Len(text) : text[i] = "</complete>" THEN "complete"
  ELSE "web-browser-takeover"

\* the status branch yielding nothing for a failed tool
StreamEvents_drops_failed(c, ltn) ==
  IF IsErrorChunk(c)
    THEN <<Event("error", "", c.message, "", FALSE)>>
  ELSE IF c.type = "status" THEN
    (IF c.status_type = "tool_started" /\ c.name # ""
       THEN <<Event("tool_call", "", << >>, c.name, FALSE)>>
     ELSE IF c.status_type = "tool_completed" /\ c.name # ""
       THEN <<Event("tool_result", "", << >>, c.name, FALSE)>>
     ELSE << >>)
  ELSE IF c.type = "assistant" THEN
    (IF c.text # << >> THEN <<Event("thought", "", c.text, "", FALSE)>> ELSE << >>)
  ELSE IF c.type = "tool" THEN
    <<Event("tool_result", "", << >>, IF c.name # "" THEN c.name ELSE ltn, c.is_error)>>
  ELSE << >>

\* events yielded for chunk c when stream is true
StreamEvents(c, ltn) ==
  IF IsErrorChunk(c)
    THEN <<Event("error", "", c.message, "", FALSE)>>
  ELSE IF c.type = "status" THEN
    (IF c.status_type = "tool_started" /\ c.name # ""
       THEN <<Event("tool_call", "", << >>, c.name, FALSE)>>
     ELSE IF c.status_type = "tool_completed" /\ c.name # ""
       THEN <<Event("tool_result", "", << >>, c.name, FALSE)>>
     ELSE IF c.status_type \in {"tool_failed", "tool_error"} /\ c.name # ""
       THEN <<Event("tool_result", "", << >>, c.name, TRUE)>>
     ELSE << >>)
  ELSE IF c.type = "assistant" THEN
    (IF c.text # << >> THEN <<Event("thought", "", c.text, "", FALSE)>> ELSE << >>)
  ELSE IF c.type = "tool" THEN
    <<Event("tool_result", "", << >>, IF c.name # "" THEN c.name ELSE ltn, c.is_error)>>
  ELSE << >>

\* when stream is false the chunk itself is yielded
ForwardedChunk(c) ==
  Event(c.type, c.status, IF c.type = "assistant" THEN c.text ELSE c.message,
        c.name, c.is_error)

ChunkEvents(c, ltn) == IF stream THEN StreamEvents(c, ltn) ELSE <<ForwardedChunk(c)>>

\* the error test taking a failed tool for an error of the stream
ErrorDetectedAfter_counts_tool_failure(c, flag) ==
  flag \/ IsErrorChunk(c) \/ c.status_type \in {"tool_failed", "tool_error"}

\* error_detected after chunk c
ErrorDetectedAfter(c, flag) == flag \/ IsErrorChunk(c)

\* the status branch without the look at metadata.agent_should_terminate
TerminateAfter_ignores_metadata(c, flag) == flag

\* agent_should_terminate after chunk c
TerminateAfter(c, flag) ==
  IF stream
    THEN flag \/ (~IsErrorChunk(c) /\ c.type = "status" /\ c.terminate)
    ELSE flag \/ (c.type = "status" /\ c.terminate)

\* last_tool_name after chunk c
LastToolNameAfter(c, ltn) ==
  IF (stream => ~IsErrorChunk(c)) /\ c.type = "status"
        /\ c.status_type \in ToolStatusTypes /\ c.name # ""
    THEN c.name ELSE ltn

\* last_tool_call after chunk c
LastToolCallAfter(c, ltc) ==
  IF stream /\ ~IsErrorChunk(c) /\ c.type = "status" /\ c.terminate /\ c.name # ""
    THEN c.name
  ELSE IF c.type = "assistant" /\ ClosesTerminator(c.text) THEN XmlTool(c.text)
  ELSE ltc

\* the accumulation putting the new text in front
FullResponseAfter_prepends(c, fr) == IF c.type = "assistant" THEN c.text \o fr ELSE fr

\* full_response after chunk c
FullResponseAfter(c, fr) == IF c.type = "assistant" THEN fr \o c.text ELSE fr

\* --------------------------------------------------- run_thread and its stream

\* what the driver yields when run_thread or its stream raises
ExceptionEvent(prefix, e) ==
  IF stream THEN Event("error", "", <<prefix, e>>, "", FALSE)
            ELSE Event("status", "error", <<prefix, e>>, "", FALSE)

\* run_thread returns a stream: the per-response variables are reset
RunThreadReturnsStream ==
  /\ pc = "run_thread"
  /\ llm_calls' = llm_calls + 1
  /\ iter_llm_calls' = iter_llm_calls + 1
  /\ last_tool_call' = ""
  /\ agent_should_terminate' = FALSE
  /\ error_detected' = FALSE
  /\ full_response' = << >>
  /\ rp' = [RpIdle EXCEPT !.open = TRUE]
  /\ pc' = "chunks"
  /\ UNCHANGED <<stream, iteration_count, continue_execution, last_tool_name,
                 temporary_message, messages, next_id, events, hist>>
  /\ UNCHANGED <<sandbox_vars, aux_vars>>

\* run_thread returns an error dict: it is yielded and the loop is left
RunThreadReturnsError ==
  /\ pc = "run_thread"
  /\ llm_calls' = llm_calls + 1
  /\ iter_llm_calls' = iter_llm_calls + 1
  /\ \E m \in ExcMsgs :
       events' = Append(events, Event("status", "error", <<m>>, "", FALSE))
  /\ hist' = [hist EXCEPT !.exit = "error_dict", !.at_raise = events]
  /\ pc' = "done"
  /\ UNCHANGED <<stream, iteration_count, continue_execution, last_tool_name,
                 last_tool_call, agent_should_terminate, error_detected, full_response,
                 temporary_message, messages, next_id, rp>>
  /\ UNCHANGED <<sandbox_vars, aux_vars>>

\* the exception handlers without their break
ExceptionPc_no_break == "while"

\* where both exception handlers leave the coroutine: break
ExceptionPc == "done"

\* run_thread raises: the outer handler yields one error and leaves the loop
RunThreadRaises ==
  /\ pc = "run_thread"
  /\ llm_calls' = llm_calls + 1
  /\ iter_llm_calls' = iter_llm_calls + 1
  /\ \E e \in ExcMsgs :
       /\ events' = Append(events, ExceptionEvent("Error running thread: ", e))
       /\ hist' = [hist EXCEPT !.exit = "thread_raised", !.raised = e, !.at_raise = events]
  /\ pc' = ExceptionPc
  /\ UNCHANGED <<stream, iteration_count, continue_execution, last_tool_name,
                 last_tool_call, agent_should_terminate, error_detected, full_response,
                 temporary_message, messages, next_id, rp>>
  /\ UNCHANGED <<sandbox_vars, aux_vars>>

\* the error branch leaving the loop (break) instead of going on (continue)
PcAfterChunk_breaks_on_error(c) == IF c.type = "status" /\ c.status = "error" THEN "decide" ELSE "chunks"

\* where the loop body leaves the coroutine after chunk c: every branch, the
\* error branch included, goes on to the next chunk
PcAfterChunk(c) == "chunks"

\* one pass of the body of 'async for chunk in response', the stream taking
\* the given step
ConsumeStep(step) ==
  /\ pc = "chunks"
  /\ rp.open
  /\ LET c == step.chunk IN
       /\ rp' = RpAfter(rp, c)
       /\ IF step.insert = << >>
            THEN UNCHANGED <<messages, next_id>>
            ELSE /\ messages' = AddMessage(messages, next_id, step.insert[1], step.insert[2])
                 /\ next_id' = next_id + 1
       /\ events' = events \o ChunkEvents(c, last_tool_name)
       /\ error_detected' = ErrorDetectedAfter(c, error_detected)
       /\ agent_should_terminate' = TerminateAfter(c, agent_should_terminate)
       /\ last_tool_name' = LastToolNameAfter(c, last_tool_name)
       /\ last_tool_call' = LastToolCallAfter(c, last_tool_call)
       /\ full_response' = FullResponseAfter(c, full_response)
       /\ pc' = PcAfterChunk(c)
       /\ hist' = [hist EXCEPT
            !.error_chunk = @ \/ IsErrorChunk(c),
            !.read_on = @ \/ hist.error_chunk,
            !.received = IF c.type = "assistant" THEN Append(@, c.text) ELSE @,
            !.bs_inserted = @ \/ (step.insert # << >> /\ step.insert[1] = "browser_state"),
            !.scheduled = IF rp'.tools > rp.tools THEN Append(@, c.name) ELSE @,
            !.results = IF rp'.executed > rp.executed
                          THEN Append(@, [name |-> Head(rp.pending),
                                          failed |-> c.status_type # "tool_completed"])
                          ELSE @,
            !.late_start = @ \/ (rp.terminator /\ rp'.tools > rp.tools),
            !.warnings = IF c.status_type = "warning" THEN @ + 1 ELSE @,
            !.excess = IF c.status_type = "warning" THEN @ + 1 ELSE @]
  /\ UNCHANGED <<stream, iteration_count, continue_execution, temporary_message,
                 llm_calls, iter_llm_calls>>

\* one pass, the stream taking one of the given steps
Consume(steps) == \E step \in steps : ConsumeStep(step)

\* a chunk of a response of text, tool tags and errors
ConsumeChunk == Consume(RpSteps(rp)) /\ UNCHANGED <<sandbox_vars, aux_vars>>

\* a chunk of a response of tool tags only
ConsumeCapChunk == Consume(RpCapSteps(rp)) /\ UNCHANGED <<sandbox_vars, aux_vars>>

\* a tool tag beyond the cap closes after the warning was given: the stream
\* drops it from its buffer and yields nothing
RpDiscards ==
  /\ pc = "chunks"
  /\ rp.open /\ ~rp.draining /\ rp.warned
  /\ rp.len < MaxTags
  /\ ~RpMaySchedule(rp)
  /\ rp' = [rp EXCEPT !.len = @ + 1]
  /\ hist' = [hist EXCEPT !.excess = @ + 1]
  /\ UNCHANGED <<stream, pc, iteration_count, continue_execution, last_tool_name,
                 last_tool_call, agent_should_terminate, error_detected, full_response,
                 temporary_message, messages, next_id, events, llm_calls,
                 iter_llm_calls>>
  /\ UNCHANGED <<sandbox_vars, aux_vars>>

\* the stream raises while it is consumed: one error is yielded, the loop is left
StreamRaises ==
  /\ pc = "chunks"
  /\ rp.open
  /\ \E e \in ExcMsgs :
       /\ events' = Append(events, ExceptionEvent("Error during response streaming: ", e))
       /\ hist' = [hist EXCEPT !.exit = "stream_raised", !.raised = e, !.at_raise = events]
  /\ rp' = [rp EXCEPT !.open = FALSE]
  /\ pc' = ExceptionPc
  /\ UNCHANGED <<stream, iteration_count, continue_execution, last_tool_name,
                 last_tool_call, agent_should_terminate, error_detected, full_response,
                 temporary_message, messages, next_id, llm_calls, iter_llm_calls>>
  /\ UNCHANGED <<sandbox_vars, aux_vars>>

\* the decision yielding the final response whenever termination was requested
DecisionEvents_ignores_error ==
  IF agent_should_terminate /\ stream
    THEN <<Event("final_response", "", full_response, "", FALSE)>>
    ELSE << >>

\* events yielded by the end-of-iteration decision
DecisionEvents ==
  IF ~error_detected /\ agent_should_terminate /\ stream
    THEN <<Event("final_response", "", full_response, "", FALSE)>>
    ELSE << >>

\* the decision without its error_detected branch
DecisionContinue_ignores_error ==
  IF agent_should_terminate THEN FALSE ELSE continue_execution

\* continue_execution after the end-of-iteration decision
DecisionContinue ==
  IF error_detected THEN FALSE
  ELSE IF agent_should_terminate THEN FALSE
  ELSE continue_execution

\* the stream ends: its rows are persisted and 'async for' is left
StreamEnds ==
  /\ pc = "chunks"
  /\ RpCanEnd(rp)
  /\ messages' = RpPersist(messages, next_id, rp)
  /\ next_id' = next_id + 1 + rp.executed
  /\ rp' = RpIdle
  /\ pc' = "decide"
  /\ UNCHANGED <<stream, iteration_count, continue_execution, last_tool_name,
                 last_tool_call, agent_should_terminate, error_detected, full_response,
                 temporary_message, events, llm_calls, iter_llm_calls, hist>>
  /\ UNCHANGED <<sandbox_vars, aux_vars>>

\* the end-of-iteration decision
EndOfIteration ==
  /\ pc = "decide"
  /\ events' = events \o DecisionEvents
  /\ continue_execution' = DecisionContinue
  /\ pc' = "while"
  /\ UNCHANGED <<stream, iteration_count, last_tool_name, last_tool_call,
                 agent_should_terminate, error_detected, full_response,
                 temporary_message, messages, next_id, rp, llm_calls, iter_llm_calls,
                 hist>>
  /\ UNCHANGED <<sandbox_vars, aux_vars>>

Next ==
  \/ LoopTest
  \/ BillingCheck
  \/ LastMessageCheck
  \/ BuildTemporaryMessage
  \/ RunThreadReturnsStream
  \/ RunThreadReturnsError
  \/ RunThreadRaises
  \/ ConsumeChunk
  \/ StreamRaises
  \/ StreamEnds
  \/ EndOfIteration

Spec == Init /\ [][Next]_vars

\* ------------------------------------------- the run on tool-tag responses

\* a thread holding one user message
CapInit ==
  /\ Init
  /\ messages = Numbered(<<<<"user", "text">>>>)

CapNext ==
  \/ LoopTest
  \/ BillingCheck
  \/ LastMessageCheck
  \/ BuildTemporaryMessage
  \/ RunThreadReturnsStream
  \/ ConsumeCapChunk
  \/ RpDiscards
  \/ StreamEnds
  \/ EndOfIteration

CapSpec == CapInit /\ [][CapNext]_vars

\* ------------------------------------------ the sandbox provider's operations

\* ensure(project_id): get_or_start_sandbox
Ensure ==
  /\ \E o \in GetOrStartSandbox(client, daytona, backend, project_sandbox) :
       /\ client' = o.client
       /\ backend' = o.backend
       /\ call' = Called("ensure", o, project_sandbox, NoInput)
  /\ UNCHANGED <<sandbox_provider, daytona, project_sandbox, tool_sandbox, daytona_config>>
  /\ UNCHANGED <<driver_vars, aux_vars>>

\* create(project_id, password): create_sandbox, then the descriptor is recorded
Create ==
  /\ backend.next_id <= MaxSandboxes
  /\ \E o \in CreateSandbox(sandbox_provider, client, daytona, backend, ProjectId) :
       /\ client' = o.client
       /\ backend' = o.backend
       /\ project_sandbox' = RecordDescriptor(project_sandbox, o)
       /\ call' = Called("create", o, project_sandbox', NoInput)
  /\ UNCHANGED <<sandbox_provider, daytona, tool_sandbox, daytona_config>>
  /\ UNCHANGED <<driver_vars, aux_vars>>

\* remove(project_id): delete_sandbox
Remove ==
  /\ \E o \in DeleteSandbox(client, daytona, backend, project_sandbox) :
       /\ client' = o.client
       /\ backend' = o.backend
       /\ project_sandbox' = o.desc
       /\ call' = Called("remove", o, o.desc, NoInput)
  /\ UNCHANGED <<sandbox_provider, daytona, tool_sandbox, daytona_config>>
  /\ UNCHANGED <<driver_vars, aux_vars>>

\* the Docker daemon stops or starts
DockerDaemonChanges ==
  /\ backend' = [backend EXCEPT !.docker_up = ~@]
  /\ UNCHANGED <<sandbox_provider, client, daytona, project_sandbox, tool_sandbox, call,
                 daytona_config>>
  /\ UNCHANGED <<driver_vars, aux_vars>>

\* a sandbox changes state outside the program: a container exits or is
\* paused, a workspace is stopped, archived or fails
SandboxChangesState ==
  /\ \/ \E c \in backend.containers, s \in ContainerStatuses \ {"created"} :
          /\ c.status # s
          /\ backend' = SetContainerStatus(backend, c.id, s)
     \/ \E w \in backend.workspaces, s \in WorkspaceStates :
          /\ w.state # s
          /\ backend' = SetWorkspaceState(backend, w.id, s)
  /\ UNCHANGED <<sandbox_provider, client, daytona, project_sandbox, tool_sandbox, call,
                 daytona_config>>
  /\ UNCHANGED <<driver_vars, aux_vars>>

\* a sandbox is removed outside the program (docker rm, the Daytona console)
SandboxRemovedOutside ==
  /\ \/ \E c \in backend.containers :
          backend' = [backend EXCEPT !.containers = @ \ {c}]
     \/ \E w \in backend.workspaces :
          backend' = [backend EXCEPT !.workspaces = @ \ {w}]
  /\ UNCHANGED <<sandbox_provider, client, daytona, project_sandbox, tool_sandbox, call,
                 daytona_config>>
  /\ UNCHANGED <<driver_vars, aux_vars>>

\* the Daytona keys are set in the configuration of the running process; the
\* module-level statement that builds the Daytona client ran at import and
\* nothing runs it again
ConfigurationCorrected ==
  /\ daytona_config = "unset"
  /\ daytona_config' = "corrected"
  /\ UNCHANGED <<sandbox_provider, client, daytona, backend, project_sandbox, tool_sandbox,
                 call>>
  /\ UNCHANGED <<driver_vars, aux_vars>>

\* no run of the agent is under way while the operations are called
SandboxStart ==
  /\ DriverInit
  /\ stream
  /\ messages = Numbered(<<<<"user", "text">>>>)
  /\ WorldInit
  /\ AuxIdle

SandboxNext ==
  \/ Ensure
  \/ Create
  \/ Remove
  \/ DockerDaemonChanges
  \/ SandboxChangesState
  \/ SandboxRemovedOutside
  \/ ConfigurationCorrected

SandboxSpec == SandboxStart /\ [][SandboxNext]_vars

\* ------------------------------------------ provider operations of coroutines

\* a coroutine calls a provider operation: get_or_start_sandbox and
\* delete_sandbox read the descriptor and wait for the database, the others
\* are called on the wrapper of the project's container
Begin(p, op) ==
  /\ callers.co[p].pc # "called"
  /\ callers.begun < MaxOperations
  /\ op \in {"exec", "upload", "list"} => project_sandbox.present
  /\ op = "create" => backend.next_id <= MaxSandboxes
  /\ callers' = [callers EXCEPT
                   !.begun = @ + 1,
                   !.co[p] = [IdleCaller EXCEPT !.op = op, !.pc = "called",
                                                !.read = project_sandbox]]
  /\ UNCHANGED <<sandbox_vars, driver_vars, workers, parser, service_vars>>

\* the event loop runs the operation of a waiting coroutine to its end: no
\* await stands between its calls of the Docker handler
Run(p) ==
  LET me == callers.co[p] IN
  /\ me.pc = "called"
  /\ \E r \in RunOperation(me.op, client, daytona, backend, me.read, project_sandbox) :
       LET built == client = "None" /\ r.client # "None"
           left == IF r.client = "None" THEN 0
                   ELSE IF built THEN callers.objects + 1 ELSE callers.current
           got == IF r.found = << >> THEN 0
                  ELSE IF GetOrInitializeClient(client, backend) = "None" THEN 0 ELSE left
           attempts == Attempts(r.found)
       IN /\ client' = r.client
          /\ backend' = r.backend
          /\ project_sandbox' = r.desc
          /\ callers' =
               [objects |-> IF built THEN callers.objects + 1 ELSE callers.objects,
                current |-> left,
                begun |-> callers.begun,
                co |-> [q \in Callers |->
                          IF q = p
                            THEN [me EXCEPT !.pc = "done", !.ok = r.ok,
                                            !.calls = Len(r.found),
                                            !.attempts = attempts,
                                            !.found = callers.current,
                                            !.got = got, !.left = left,
                                            !.daemon_up = backend.docker_up,
                                            !.commands = r.commands]
                          ELSE IF callers.co[q].pc = "called" /\ attempts > 0
                            THEN [callers.co[q] EXCEPT !.seen = @ \cup {got}]
                          ELSE callers.co[q]]]
  /\ UNCHANGED <<sandbox_provider, daytona, tool_sandbox, call, daytona_config>>
  /\ UNCHANGED <<driver_vars, workers, parser, service_vars>>

\* the process starts on a project that has its container or none
HandlerStart ==
  /\ DriverInit
  /\ stream
  /\ messages = Numbered(<<<<"user", "text">>>>)
  /\ WorldInit
  /\ sandbox_provider = "local_docker"
  /\ project_sandbox.type # "daytona"
  /\ daytona = "None"
  /\ daytona_config = "unset"
  /\ callers = CallersInit
  /\ workers = NoWorkers
  /\ parser = NoParse
  /\ ServicesIdle

HandlerNext ==
  \/ \E p \in Callers, op \in Operations : Begin(p, op)
  \/ \E p \in Callers : Run(p)
  \/ DockerDaemonChanges

HandlerSpec == HandlerStart /\ [][HandlerNext]_vars

\* ---------------------------------------------- ensure calls of two processes

\* a process calls get_or_start_sandbox: it reads the descriptor and asks the
\* daemon for the container's status; 'running' returns the wrapper, any
\* status that is not start-needed returns None
GetStatus(w) ==
  LET me == workers[w]
      status == GetSandboxContainerStatus(me.client, backend, project_sandbox.id)
      cur == GetOrInitializeClient(me.client, backend)
  IN /\ me.pc \in {"idle", "done"}
     /\ project_sandbox.present
     /\ workers' =
          [workers EXCEPT ![w] =
             [IdleWorker EXCEPT
                !.client = cur,
                !.status = status,
                !.pc = IF status \in {"created", "exited", "stopped"} THEN "start" ELSE "done",
                !.ok = status = "running",
                !.handle = IF status = "running"
                             THEN Handle("local_docker", project_sandbox.id) ELSE NoHandle,
                !.post = IF status = "running" THEN "running" ELSE ""]]
     /\ UNCHANGED <<sandbox_vars, driver_vars, callers, parser, service_vars>>

\* the process that saw a start-needed status starts the container and returns
StartExisting(w) ==
  LET me == workers[w]
      id == project_sandbox.id
      r == StartExistingContainer(me.client, backend, id)
  IN /\ me.pc = "start"
     /\ backend' = r.backend
     /\ workers' =
          [workers EXCEPT ![w] =
             [me EXCEPT !.pc = "done", !.ok = r.ok, !.started = TRUE,
                        !.redundant = ContainerStatus(backend, id) = "running",
                        !.handle = IF r.ok THEN Handle("local_docker", id) ELSE NoHandle,
                        !.post = ContainerStatus(r.backend, id)]]
     /\ UNCHANGED <<sandbox_provider, client, daytona, project_sandbox, tool_sandbox, call,
                    daytona_config>>
     /\ UNCHANGED <<driver_vars, callers, parser, service_vars>>

\* the main process of the container ends
ContainerExits ==
  /\ \E c \in backend.containers :
       /\ c.status = "running"
       /\ backend' = SetContainerStatus(backend, c.id, "exited")
  /\ UNCHANGED <<sandbox_provider, client, daytona, project_sandbox, tool_sandbox, call,
                 daytona_config>>
  /\ UNCHANGED <<driver_vars, aux_vars>>

\* the project has its container, created, exited or running, the daemon
\* answers, and each process has connected to it before or not
WorkersStart ==
  /\ DriverInit
  /\ stream
  /\ messages = Numbered(<<<<"user", "text">>>>)
  /\ sandbox_provider = "local_docker"
  /\ client = "None"
  /\ daytona = "None"
  /\ daytona_config = "unset"
  /\ tool_sandbox = NoHandle
  /\ call = NoCall
  /\ \E s \in {"created", "exited", "running"} :
       backend = [EmptyBackend EXCEPT
                    !.containers = {[id |-> 1, name |-> ContainerName(ProjectId),
                                     status |-> s]},
                    !.next_id = 2]
  /\ project_sandbox = Descriptor("local_docker", 1)
  /\ callers = NoCallers
  /\ workers \in [Workers -> {[IdleWorker EXCEPT !.client = cl] :
                                 cl \in {"None", "DockerClient"}}]
  /\ parser = NoParse
  /\ ServicesIdle

WorkersNext ==
  \/ \E w \in Workers : GetStatus(w)
  \/ \E w \in Workers : StartExisting(w)
  \/ ContainerExits

WorkersSpec == WorkersStart /\ [][WorkersNext]_vars

\* ------------------------------------------------------- a call of the parser

\* parse is applied to the xml_string drawn at the start
ParseXml ==
  /\ ~parser.done
  /\ LET r == Parse(parser.xml_string)
     IN parser' = [parser EXCEPT !.done = TRUE, !.parsed = r.parsed,
                                 !.tool_calls = r.tool_calls, !.raised = r.raised]
  /\ UNCHANGED <<driver_vars, sandbox_vars, callers, workers, service_vars>>

ParserStart ==
  /\ DriverInit
  /\ stream
  /\ messages = Numbered(<<<<"user", "text">>>>)
  /\ SandboxInit
  /\ callers = NoCallers
  /\ workers = NoWorkers
  /\ \E x \in XmlStrings : parser = [NoParse EXCEPT !.xml_string = x]
  /\ ServicesIdle

ParserNext == ParseXml

ParserSpec == ParserStart /\ [][ParserNext]_vars

\* ------------------------------------------------------- make_llm_api_call

\* make_llm_api_call is called: prepare_params, then the first round of the loop
MakeLlmApiCall(c) ==
  /\ llm[c].pc = "idle"
  /\ llm' = [llm EXCEPT ![c] = LoopRound(@, 0)]
  /\ UNCHANGED <<driver_vars, sandbox_vars, callers, workers, parser, dispatch>>

\* 'await litellm.acompletion' ends: the response is returned, an exception of
\* the first except clause is kept and handle_error sleeps, any other
\* exception is raised as LLMError
Acompletion(c) ==
  /\ llm[c].pc = "acompletion"
  /\ \E outcome \in CompletionOutcomes :
       llm' = [llm EXCEPT ![c] =
                 IF outcome = "response"
                   THEN [@ EXCEPT !.pc = "returned", !.outcomes = Append(@, outcome)]
                 ELSE IF outcome \in Retryable
                   THEN [@ EXCEPT !.pc = "sleep", !.last_error = outcome,
                                  !.delay = HandleErrorDelay(outcome),
                                  !.outcomes = Append(@, outcome)]
                 ELSE [@ EXCEPT !.pc = "raised", !.raised = "LLMError",
                                !.outcomes = Append(@, outcome)]]
  /\ UNCHANGED <<driver_vars, sandbox_vars, callers, workers, parser, dispatch>>

\* 'await asyncio.sleep(delay)' of handle_error ends: the next round of the
\* loop, or LLMRetryError after the last
HandleErrorReturns(c) ==
  /\ llm[c].pc = "sleep"
  /\ llm' = [llm EXCEPT ![c] = LoopRound([@ EXCEPT !.delay = ""], @.attempt + 1)]
  /\ UNCHANGED <<driver_vars, sandbox_vars, callers, workers, parser, dispatch>>

LlmStart ==
  /\ DriverInit
  /\ stream
  /\ messages = Numbered(<<<<"user", "text">>>>)
  /\ SandboxInit
  /\ callers = NoCallers
  /\ workers = NoWorkers
  /\ parser = NoParse
  /\ llm = [c \in LlmCalls |-> IdleLlmCall]
  /\ dispatch = NoDispatch

LlmNext ==
  \E c \in LlmCalls :
    \/ MakeLlmApiCall(c)
    \/ Acompletion(c)
    \/ HandleErrorReturns(c)

\* every await of a call that was made ends
LlmFairness ==
  \A c \in LlmCalls : WF_vars(Acompletion(c)) /\ WF_vars(HandleErrorReturns(c))

LlmSpec == LlmStart /\ [][LlmNext]_vars /\ LlmFairness

\* ----------------------------------------------------- ResponseProcessor._execute_tool

\* _execute_tool runs on a tool call
ExecuteToolCall ==
  /\ ~dispatch.done
  /\ dispatch' = [dispatch EXCEPT
                    !.done = TRUE,
                    !.result = ExecuteTool(dispatch.tools,
                                           [function_name |-> dispatch.function_name,
                                            arguments |-> dispatch.arguments])]
  /\ UNCHANGED <<driver_vars, sandbox_vars, callers, workers, parser, llm>>

DispatchStart ==
  /\ DriverInit
  /\ stream
  /\ messages = Numbered(<<<<"user", "text">>>>)
  /\ SandboxInit
  /\ callers = NoCallers
  /\ workers = NoWorkers
  /\ parser = NoParse
  /\ llm = NoLlm
  /\ \E tools \in Registries, function_name \in FunctionNames, arguments \in ToolArguments :
       dispatch = [NoDispatch EXCEPT !.tools = tools, !.function_name = function_name,
                                     !.arguments = arguments]

DispatchNext == ExecuteToolCall

DispatchSpec == DispatchStart /\ [][DispatchNext]_vars

\* ------------------------------------------------- the browser tool's action

\* the call record of a browser action: the sandbox _ensure_sandbox gave and
\* how the action ended
BrowserCalled(o, r, in) ==
  Called("browser", [o EXCEPT !.ok = r.success, !.raised = r.raised, !.cause = r.cause],
         project_sandbox, in)

\* what a browser action leaves in the tool and in the backends
BrowserEffects(o, r, in) ==
  /\ tool_sandbox' = o.value
  /\ client' = o.client
  /\ backend' = o.backend
  /\ call' = BrowserCalled(o, r, in)
  /\ UNCHANGED <<sandbox_provider, daytona, project_sandbox, daytona_config, aux_vars>>

\* _execute_browser_action on the input the start drew, at most twice
BrowserAction ==
  /\ call.prev.op = ""
  /\ \E o \in EnsureSandbox(tool_sandbox, client, daytona, backend, project_sandbox) :
       LET r == ExecuteBrowserAction(o, call.input) IN
         /\ BrowserEffects(o, r, call.input)
         /\ IF r.insert = << >>
              THEN UNCHANGED <<messages, next_id>>
              ELSE /\ messages' = AddMessage(messages, next_id, r.insert[1], r.insert[2])
                   /\ next_id' = next_id + 1
  /\ UNCHANGED <<stream, pc, iteration_count, continue_execution, last_tool_name,
                 last_tool_call, agent_should_terminate, error_detected, full_response,
                 temporary_message, rp, events, llm_calls, iter_llm_calls, hist>>

\* the tool and its sandbox, with the input of the action drawn; SANDBOX_TYPE,
\* which the action does not read, is left at its default
BrowserStart ==
  /\ DriverInit
  /\ stream
  /\ messages = Numbered(<<<<"user", "text">>>>)
  /\ \E in \in BrowserInputs : WorldStart([NoCall EXCEPT !.input = in])
  /\ sandbox_provider = "daytona"
  /\ AuxIdle

BrowserNext == BrowserAction

BrowserSpec == BrowserStart /\ [][BrowserNext]_vars

\* ---------------------------------------------- the run with the browser tool

\* the inputs of the browser actions of a run
ToolRunInputs ==
  {in \in BrowserInputs :
     /\ in.endpoint = "navigate_to"
     /\ in.service = "ok"
     /\ in.exec \in {"exit_0", "exit_1"}
     /\ in.stdout = <<"{", "m", "}">>}

\* the status the stream reports for a ToolResult
RpToolStatus(success) == IF success THEN "tool_completed" ELSE "tool_failed"

\* the steps of a response of text and browser tool tags, the results left out
RpToolSteps(r) ==
  {st \in RpSteps(r) :
     \/ st.chunk.type = "assistant"
     \/ st.chunk.status_type = "tool_started" /\ st.chunk.name = "browser-navigate-to"
     \/ st.chunk.terminate}

\* a chunk of a response of text and browser tool tags
ConsumeToolChunk == Consume(RpToolSteps(rp)) /\ UNCHANGED <<sandbox_vars, aux_vars>>

\* the stream executes the next scheduled browser action and yields its result
ToolExecutes ==
  /\ pc = "chunks"
  /\ rp.open
  /\ rp.pending # << >>
  /\ \E in \in ToolRunInputs :
       \E o \in EnsureSandbox(tool_sandbox, client, daytona, backend, project_sandbox) :
         LET r == ExecuteBrowserAction(o, in) IN
           /\ BrowserEffects(o, r, in)
           /\ ConsumeStep([chunk |-> StatusChunk(RpToolStatus(r.success), Head(rp.pending), FALSE),
                           insert |-> r.insert])

\* a thread holding one user message, and the sandbox of its project
ToolStart ==
  /\ DriverInit
  /\ messages = Numbered(<<<<"user", "text">>>>)
  /\ WorldInit
  /\ AuxIdle

ToolNext ==
  \/ LoopTest
  \/ BillingCheck
  \/ LastMessageCheck
  \/ BuildTemporaryMessage
  \/ RunThreadReturnsStream
  \/ ConsumeToolChunk
  \/ ToolExecutes
  \/ StreamEnds
  \/ EndOfIteration

ToolSpec == ToolStart /\ [][ToolNext]_vars

\* =================================================================== claims

\* an event that reports an error: the error event of streaming mode, or the
\* status error that non-streaming mode yields in its place
IsErrorEvent(e) == e.type = "error" \/ (e.type = "status" /\ e.status = "error")

\* a terminator tag closed in an assistant text of this iteration
TagClosed == \E i \in 1..Len(hist.received) : ClosesTerminator(hist.received[i])

MessageIds(msgs) == {msgs[i].message_id : i \in 1..Len(msgs)}

\* C1: one run_agent invocation executes the loop body at most max_iterations
\* times and makes at most max_iterations run_thread calls, whatever the
\* responses are.
C1_IterationCap ==
  /\ iteration_count <= max_iterations
  /\ llm_calls <= iteration_count
  /\ llm_calls <= max_iterations

\* the budget is used up by responses that never signal termination
C1_Witness ==
  /\ pc = "done"
  /\ hist.exit = "loop"
  /\ continue_execution
  /\ iteration_count = max_iterations
  /\ llm_calls = max_iterations

\* C2: when the billing check of an iteration refuses, the driver yields exactly
\* one event in that iteration (an error event when streaming, a stopped status
\* otherwise), makes no run_thread call in it and starts no further iteration.
C2_BillingStop ==
  hist.exit = "billing" =>
    /\ pc = "done"
    /\ Len(events) = 1
    /\ IF stream THEN events[1].type = "error"
                 ELSE events[1].type = "status" /\ events[1].status = "stopped"
    /\ iter_llm_calls = 0

\* billing refuses in the second iteration, after one run_thread call
C2_Witness ==
  /\ hist.exit = "billing"
  /\ iteration_count = 2
  /\ llm_calls = 1
  /\ Len(events) = 1

\* C3: when a terminator tag closes in the assistant text of an iteration's
\* response, termination is requested for that iteration (agent_should_terminate
\* is set by the end of the stream) and no further iteration starts.
C3_TerminatorStops ==
  (TagClosed /\ pc # "chunks") =>
    \/ hist.exit = "stream_raised" /\ pc = "done"
    \/ /\ agent_should_terminate
       /\ pc = "decide" \/ (pc \in {"while", "done"} /\ ~continue_execution)

\* a response with a terminator tag has been handled to its end and the loop left
C3_Witness ==
  /\ TagClosed
  /\ pc = "done"
  /\ hist.exit = "loop"
  /\ agent_should_terminate
  /\ ~error_detected
  /\ iteration_count < max_iterations

\* C4: an error status chunk flags the iteration as errored, an error event is
\* yielded for it, and the loop is left at the end of that iteration.
C4_ErrorChunkStops ==
  hist.error_chunk =>
    /\ error_detected
    /\ \E i \in 1..Len(events) : IsErrorEvent(events[i]) /\ events[i].content = <<"e1">>
    /\ \/ pc \in {"chunks", "decide", "done"}
       \/ pc = "while" /\ ~continue_execution

\* an error chunk arrived in the first iteration and the loop was left there
C4_Witness ==
  /\ hist.error_chunk
  /\ pc = "done"
  /\ hist.exit = "loop"
  /\ iteration_count = 1
  /\ llm_calls = 1

\* C5: the end-of-iteration decision is taken only when the response stream has
\* ended: neither an error chunk nor a termination signal makes the driver leave
\* the chunk loop, so outside the loop no tool execution of the response is
\* pending (an exception raised by the stream itself apart).
C5_DecisionAfterDrain ==
  (pc # "chunks" /\ hist.exit # "stream_raised") => (~rp.open /\ rp.pending = << >>)

\* the decision point is reached although chunks followed an error chunk
C5_Witness ==
  /\ pc = "decide"
  /\ hist.error_chunk
  /\ hist.read_on
  /\ error_detected

\* C6: when run_thread or the consumption of its stream raises, the driver
\* yields exactly one more event, an error event carrying the exception's
\* message (a status error when not streaming), and leaves the loop normally;
\* an error dict returned by run_thread is yielded once and ends the loop too.
C6_ExceptionHandled ==
  /\ hist.raised # "none" =>
       /\ pc = "done"
       /\ hist.exit \in {"thread_raised", "stream_raised"}
       /\ Len(events) = Len(hist.at_raise) + 1
       /\ SubSeq(events, 1, Len(hist.at_raise)) = hist.at_raise
       /\ events[Len(events)].content[2] = hist.raised
       /\ IF stream THEN events[Len(events)].type = "error"
                    ELSE /\ events[Len(events)].type = "status"
                         /\ events[Len(events)].status = "error"
  /\ hist.exit = "error_dict" =>
       /\ pc = "done"
       /\ events = Append(hist.at_raise, events[Len(events)])
       /\ IsErrorEvent(events[Len(events)])

\* the stream raised after the driver had already yielded events for its chunks
C6_Witness ==
  /\ hist.exit = "stream_raised"
  /\ hist.raised = "e1"
  /\ Len(hist.at_raise) = 2
  /\ pc = "done"

\* C7: when the last-message check finds that the latest assistant, tool or user
\* row is an assistant row, the driver leaves the loop without a run_thread
\* call in that iteration.
C7_LastAssistantExits ==
  hist.last_kind = "assistant" =>
    /\ pc = "done"
    /\ hist.exit = "last_assistant"
    /\ ~continue_execution
    /\ iter_llm_calls = 0

\* the second iteration stops at the check, after a response that left an
\* assistant row last
C7_Witness ==
  /\ hist.last_kind = "assistant"
  /\ iteration_count = 2
  /\ llm_calls = 1
  /\ pc = "done"

\* C8: an image_context row that was put in a temporary message is gone from the
\* thread from then on, so no row is put in two temporary messages.
C8_ImageContextOneShot ==
  /\ \A i, j \in 1..Len(hist.included) : hist.included[i] = hist.included[j] => i = j
  /\ \A i \in 1..Len(hist.included) : hist.included[i] \notin MessageIds(messages)

\* two image_context rows were consumed, one per iteration
C8_Witness ==
  /\ iteration_count = 2
  /\ pc = "run_thread"
  /\ Len(hist.included) = 2
  /\ \E k \in 1..Len(temporary_message) : temporary_message[k].url = "caption"

\* the blocks of temporary message tm built from row id
PartsOf(tm, id) == SelectSeq(tm, LAMBDA p : p.msg = id)

\* C9: no step of the driver deletes or alters a browser_state row; when no
\* browser_state row was inserted since the previous build, the next build reads
\* the same row and yields the same browser blocks; and a row the driver deleted
\* is neither in the store nor in a later temporary message.
C9_BrowserStateKept ==
  [][ /\ \A i \in 1..Len(messages) :
           messages[i].type = "browser_state" =>
             \E j \in 1..Len(messages') : messages'[j] = messages[i]
      /\ (pc = "temp_message" /\ hist.built /\ ~hist.bs_inserted) =>
           /\ hist'.bs_used = hist.bs_used
           /\ PartsOf(temporary_message', hist.bs_used) = PartsOf(temporary_message, hist.bs_used)
      /\ \A id \in hist'.deleted : id \notin MessageIds(messages')
      /\ pc = "temp_message" =>
           \A id \in hist.deleted : PartsOf(temporary_message', id) = << >>
    ]_vars

\* the second iteration built its temporary message from the browser_state row
\* of the first, after the first had consumed an image_context row
C9_Witness ==
  /\ iteration_count = 2
  /\ pc = "run_thread"
  /\ hist.bs_used # 0
  /\ ~hist.bs_fresh
  /\ hist.deleted # {}
  /\ temporary_message # << >>
  /\ \A k \in 1..Len(temporary_message) : temporary_message[k].msg = hist.bs_used

\* C10: a final_response event is yielded only when streaming, only as the last
\* event of an iteration in which termination was requested, and its content is
\* the assistant texts of that iteration concatenated in arrival order.
C10_FinalResponse ==
  \A i \in 1..Len(events) :
    events[i].type = "final_response" =>
      /\ stream
      /\ agent_should_terminate
      /\ i = Len(events)
      /\ pc \in {"while", "done"}
      /\ events[i].content = Flatten(hist.received)

\* a final_response carrying two different texts in their order of arrival
C10_Witness ==
  /\ events # << >>
  /\ events[Len(events)].type = "final_response"
  /\ events[Len(events)].content = <<"hi", "</complete>">>

\* the events of one type among those of this iteration, in order
EventsOfType(type) == SelectSeq(events, LAMBDA e : e.type = type)

\* the tool names a sequence of events carries, in order
ToolNamesOf(es) == [i \in 1..Len(es) |-> es[i].tool_name]

ToolFailed == \E i \in 1..Len(hist.results) : hist.results[i].failed

\* C14: a failed tool does not end the run.  Its result is yielded as a
\* tool_result event with is_error true, it does not flag the iteration as
\* errored, and when the iteration saw neither an error chunk nor a termination
\* signal the decision leaves continue_execution set, so that the loop goes on
\* as long as the iteration budget lasts.
C14_ToolFailureNotFatal ==
  ToolFailed =>
    /\ stream =>
         Len(SelectSeq(EventsOfType("tool_result"), LAMBDA e : e.is_error))
           = Len(SelectSeq(hist.results, LAMBDA r : r.failed))
    /\ ~hist.error_chunk => ~error_detected
    /\ (~hist.error_chunk /\ ~agent_should_terminate) =>
         /\ continue_execution
         /\ pc = "while" => (iteration_count < max_iterations => LoopCondition)
         /\ pc = "done" =>
              \/ hist.exit = "stream_raised"
              \/ hist.exit = "loop" /\ iteration_count = max_iterations

\* the first iteration ended after a failed tool, with the loop set to go on
C14_Witness ==
  /\ ToolFailed
  /\ pc = "while"
  /\ iteration_count = 1
  /\ ~hist.error_chunk
  /\ ~agent_should_terminate
  /\ continue_execution
  /\ LoopCondition

\* the latest call is a browser action that could not obtain its sandbox
\* because the client of the sandbox's backend could not be initialised
SandboxUnavailableHit ==
  /\ call.op = "browser"
  /\ call.pre.desc.present
  /\ call.pre.unavailable
  /\ call.handle = NoHandle

\* C15: when a tool call cannot obtain its sandbox because the provider's
\* backend client cannot be initialised, the invocation fails: the iteration
\* of that call yields an error event, and no later iteration is entered
C15_SandboxUnavailableFatal ==
  SandboxUnavailableHit =>
    /\ iteration_count = call.iteration
    /\ pc \in {"while", "done"} =>
         /\ \E i \in 1..Len(events) : IsErrorEvent(events[i])
         /\ ~continue_execution

\* C16: a browser action never raises to its caller; it returns success=false
\* when the sandbox cannot be ensured, when the command raises or exits with a
\* code other than 0, when stdout is empty or white space, is no JSON object
\* or does not parse; it returns success=true only for exit code 0 with
\* stdout that parses as a JSON object
C16_BrowserNeverRaises ==
  call.op = "browser" =>
    LET in == call.input
        stripped == Strip(in.stdout)
    IN /\ call.raised = ""
       /\ call.handle = NoHandle => ~call.ok
       /\ in.exec \in {"raises", "exit_1"} => ~call.ok
       /\ stripped = << >> => ~call.ok
       /\ ~LooksLikeObject(stripped) => ~call.ok
       /\ ~JsonLoads(stripped) => ~call.ok
       /\ call.ok => in.exec = "exit_0" /\ LooksLikeObject(stripped) /\ JsonLoads(stripped)

\* a browser action succeeds on the sandbox on which the action before it,
\* with the same input, failed
C16_Witness ==
  /\ call.op = "browser" /\ call.ok
  /\ call.prev.op = "browser" /\ ~call.prev.ok

\* C17: whatever ensure, create and remove calls were made, at most one sandbox
\* of the project exists: the project has one descriptor or none, and the
\* backends hold no second container or instance of the project
C17_OneSandboxPerProject == Cardinality(ProjectSandboxes(backend)) <= 1

\* the states in which a sandbox runs, and those a start recovers it from
RunningStates == {"running", "started"}

StartableStates == {"created", "exited", "stopped", "archived"}

\* C18: ensure fails without a stored descriptor; on a running sandbox it
\* returns the handle and issues no start; on a stopped or created one it
\* issues the start before it returns the handle; whenever it returns a handle
\* the sandbox of the descriptor is running, and the call repeated returns a
\* handle to the same sandbox
C18_EnsureContract ==
  call.op = "ensure" =>
    /\ ~call.pre.desc.present => ~call.ok
    /\ call.ok /\ call.pre.state \in RunningStates => ~call.started
    /\ call.ok /\ call.pre.state \in StartableStates => call.started
    /\ call.ok =>
         /\ call.handle = Handle(call.pre.desc.type, call.pre.desc.id)
         /\ call.post.state \in RunningStates
    /\ call.ok /\ call.prev.op = "ensure" /\ call.prev.ok => call.handle = call.prev.handle

\* what the caller of ensure has in hand: the value returned and the exception raised
Visible(value, raised) == [value |-> value, raised |-> raised]

\* what ensure gives its caller when the descriptor is missing, or names a
\* container or an instance its backend does not hold
NotFoundVisible ==
  {Visible(o.value, o.raised) :
     o \in UNION {GetOrStartSandbox("DockerClient", "Daytona", EmptyBackend, d) :
                    d \in {NoDescriptor} \cup {Descriptor(t, 1) : t \in SandboxTypes}}}

\* C19: when the client of the backend cannot be initialised, ensure fails in
\* a way its caller can tell from the failure for a missing descriptor or a
\* missing container
C19_UnavailableDistinct ==
  (call.op = "ensure" /\ call.pre.desc.present /\ call.pre.unavailable) =>
    /\ ~call.ok
    /\ Visible(call.handle, call.raised) \notin NotFoundVisible

\* C20: remove on a project whose sandbox is already absent (no descriptor, or
\* a descriptor whose sandbox the backend no longer holds) returns true and
\* leaves the descriptor cleared and the backends as they were; a remove that
\* follows a successful remove returns true
C20_RemoveIdempotent ==
  call.op = "remove" =>
    /\ (call.pre.state = "" /\ ~call.pre.unavailable /\ call.pre.daemon_up) =>
         /\ call.ok
         /\ ~call.post.desc.present
    /\ ~call.pre.desc.present => call.post = call.pre
    /\ (call.prev.op = "remove" /\ call.prev.ok) =>
         /\ call.ok
         /\ ~call.post.desc.present

C22_RemovedIsTerminal ==
  call.op = "ensure" =>
    /\ (call.pre.desc.present /\ call.pre.state = "") =>
         /\ ~call.ok
         /\ ~call.started
         /\ call.post.state = ""
    /\ call.started => call.pre.state \in StartableStates

\* an ensure was called, with its client at hand, on a project whose sandbox
\* had been removed
C22_Witness ==
  /\ call.op = "ensure"
  /\ call.pre.desc.present
  /\ call.pre.state = ""
  /\ ~call.pre.unavailable
  /\ call.pre.daemon_up
  /\ ~call.ok

\* C27: ensure on a project whose descriptor is of type daytona fails while
\* the Daytona keys are not configured, and once the keys have been set in the
\* running process an ensure on the project's started instance returns its
\* handle
C27_ConfigurationCorrected ==
  (call.op = "ensure" /\ call.pre.desc.type = "daytona") =>
    /\ call.config = "unset" => ~call.ok
    /\ (call.config = "corrected" /\ call.pre.state = "started") => call.ok

\* C23: an operation that finds a client cached makes no initialisation
\* attempt, gets that same client object and leaves it cached, and the process
\* never builds a second client object
C23_CachedClientReused ==
  /\ callers.objects <= 1
  /\ \A p \in Callers :
       (callers.co[p].pc = "done" /\ callers.co[p].found # 0) =>
         /\ callers.co[p].attempts = 0
         /\ callers.co[p].calls > 0 => callers.co[p].got = callers.co[p].found
         /\ callers.co[p].left = callers.co[p].found
         /\ callers.current = callers.co[p].found

\* an operation made two calls of _get_or_initialize_client with the client
\* cached, and an earlier operation of the other caller had built that client
C23_Witness ==
  \E p, q \in Callers :
    /\ p # q
    /\ callers.co[p].pc = "done"
    /\ callers.co[p].found = 1
    /\ callers.co[p].calls = 2
    /\ callers.co[p].got = 1
    /\ callers.co[q].pc = "done"
    /\ callers.co[q].found = 0
    /\ callers.co[q].got = 1

\* C24: an operation that finds no client cached tries to initialise it; when
\* the attempt fails the operation reports failure and the client stays
\* unset, and when it succeeds the operation gets the new client, which is the
\* cached client from then on
C24_FailedInitRetried ==
  \A p \in Callers :
    (callers.co[p].pc = "done" /\ callers.co[p].calls > 0 /\ callers.co[p].found = 0) =>
      /\ callers.co[p].attempts >= 1
      /\ ~callers.co[p].daemon_up =>
           /\ callers.co[p].got = 0
           /\ ~callers.co[p].ok
           /\ callers.co[p].left = 0
      /\ callers.co[p].daemon_up =>
           /\ callers.co[p].got # 0
           /\ callers.co[p].left = callers.co[p].got
           /\ callers.current = callers.co[p].got

\* the initialisation of one operation failed, and the next operation, of the
\* other caller, tried again and got a client
C24_Witness ==
  \E p, q \in Callers :
    /\ callers.co[q].pc = "done"
    /\ callers.co[q].attempts = 1
    /\ callers.co[q].got = 0
    /\ ~callers.co[q].ok
    /\ callers.co[p].pc = "done"
    /\ callers.co[p].found = 0
    /\ callers.co[p].attempts = 1
    /\ callers.co[p].got = 1
    /\ client = "DockerClient"

\* C25: no operation makes more than one initialisation attempt
C25_OneAttemptPerOperation ==
  \A p \in Callers : callers.co[p].pc = "done" => callers.co[p].attempts <= 1

C28_RedundantStartHarmless ==
  \A v, w \in Workers :
    (/\ v # w
     /\ workers[v].pc = "done"
     /\ workers[w].pc = "done"
     /\ workers[v].started
     /\ workers[w].started) =>
      /\ workers[v].ok
      /\ workers[w].ok
      /\ workers[v].handle = workers[w].handle
      /\ workers[v].post = "running"
      /\ workers[w].post = "running"
      /\ Cardinality(backend.containers) = 1

\* both calls saw the container exited, and the second start was issued on
\* the container the first had started
C28_Witness ==
  \E v, w \in Workers :
    /\ v # w
    /\ workers[v].pc = "done"
    /\ workers[w].pc = "done"
    /\ workers[v].status = "exited"
    /\ workers[w].status = "exited"
    /\ workers[v].started
    /\ ~workers[v].redundant
    /\ workers[w].redundant
    /\ workers[w].ok

\* whether a sequence of pieces is well-formed markup: no stray '<', and every
\* end tag closes the start tag that is open
RECURSIVE WellFormed(_, _)
WellFormed(pieces, open) ==
  IF pieces = << >> THEN open = << >>
  ELSE LET h == Head(pieces) IN
    CASE h.kind = "stray" -> FALSE
      [] h.kind = "start" -> WellFormed(Tail(pieces), <<h.tag>> \o open)
      [] h.kind = "end" ->
           open # << >> /\ Head(open) = h.tag /\ WellFormed(Tail(pieces), Tail(open))
      [] OTHER -> WellFormed(Tail(pieces), open)

\* the names of the tool elements of well-formed pieces, from left to right:
\* the elements that lie in no element but the containers and are not
\* containers, Format A elements by their attribute name (without a name an
\* invoke element is no tool element), Format B elements by their tag;
\* inside counts the elements open that are not transparent
RECURSIVE ToolElementNames(_, _)
ToolElementNames(pieces, inside) ==
  IF pieces = << >> THEN << >>
  ELSE LET h == Head(pieces)
           container == Lower(h.tag) \in {"function_calls", "tools"}
           named == IF Lower(h.tag) = "invoke" THEN h.name ELSE h.tag
           here == IF inside = 0 /\ ~container /\ h.kind \in {"start", "empty", "leaf"}
                      /\ named # ""
                     THEN <<named>> ELSE << >>
           next == IF h.kind = "start" /\ (inside > 0 \/ ~container) THEN inside + 1
                   ELSE IF h.kind = "end" /\ inside > 0 THEN inside - 1
                   ELSE inside
       IN here \o ToolElementNames(Tail(pieces), next)

\* C29: for a well-formed input with k tool elements, parse returns a list of
\* at least min(k, 10) tool calls, and the calls it returns are the tool
\* elements in their order in the source
C29_ParserSourceOrder ==
  (parser.done /\ WellFormed(parser.xml_string, << >>)) =>
    LET expected == ToolElementNames(parser.xml_string, 0)
        k == Len(expected)
        n == Len(parser.tool_calls)
    IN /\ parser.parsed
       /\ n >= (IF k < max_xml_tool_calls THEN k ELSE max_xml_tool_calls)
       /\ n <= k
       /\ \A i \in 1..n : parser.tool_calls[i].tool_name = expected[i]

\* a Format B element inside a container and a Format A element after the
\* container, with no single root, were returned in that order
C29_Witness ==
  /\ parser.done
  /\ WellFormed(parser.xml_string, << >>)
  /\ Len(parser.xml_string) = 4
  /\ parser.xml_string[1].kind = "start"
  /\ Lower(parser.xml_string[1].tag) = "tools"
  /\ parser.xml_string[3].kind = "end"
  /\ Len(parser.tool_calls) = 2
  /\ parser.tool_calls[1].tool_name = "web-search"
  /\ parser.tool_calls[2].tool_name = "ls"

\* C30: the list parse returns holds at most 10 tool calls
C30_ParserCap ==
  parser.done => Len(parser.tool_calls) <= max_xml_tool_calls

\* C31: an input that is not well-formed makes parse return None, with no
\* exception leaving it and no tool call returned; an empty input and an input
\* of white space alone make it return the empty list, which is not None
C31_MalformedGivesNone ==
  parser.done =>
    /\ parser.raised = ""
    /\ ~WellFormed(parser.xml_string, << >>) =>
         (~parser.parsed /\ parser.tool_calls = << >>)
    /\ XmlStrip(parser.xml_string) = << >> =>
         (parser.parsed /\ parser.tool_calls = << >>)
    /\ Parsed(<< >>) # ParsedNone

\* an input with a complete tool element followed by a start tag that is never
\* closed was parsed to None
C31_Witness ==
  /\ parser.done
  /\ Len(parser.xml_string) = 2
  /\ parser.xml_string[1] = Piece("empty", "invoke", "ls", {}, << >>)
  /\ parser.xml_string[2].kind = "start"
  /\ ~parser.parsed
  /\ parser.raised = ""

\* the parameter children with a name of each invoke element with a name that
\* lies directly in the function_calls block, from left to right
RECURSIVE InvokeParams(_, _, _, _)
InvokeParams(pieces, depth, named, params) ==
  IF pieces = << >> THEN << >>
  ELSE LET h == Head(pieces) IN
    CASE h.kind = "start" ->
           IF depth = 0 THEN InvokeParams(Tail(pieces), 1, h.name # "", << >>)
           ELSE InvokeParams(Tail(pieces), depth + 1, named, params)
      [] h.kind = "end" ->
           IF depth = 1
             THEN (IF named THEN <<params>> ELSE << >>)
                    \o InvokeParams(Tail(pieces), 0, FALSE, << >>)
             ELSE InvokeParams(Tail(pieces), depth - 1, named, params)
      [] h.kind = "leaf" /\ depth = 1 /\ h.tag = "parameter" /\ h.name # "" ->
           InvokeParams(Tail(pieces), depth, named, Append(params, h))
      [] OTHER -> InvokeParams(Tail(pieces), depth, named, params)

\* the body of a function_calls block: the pieces between its tags
BlockBody(xml_string) == SubSeq(xml_string, 2, Len(xml_string) - 1)

\* whether an input is a well-formed function_calls block of Format A pieces
IsBlock(xml_string) ==
  /\ Len(xml_string) >= 3
  /\ xml_string[1] = Piece("start", "function_calls", "", {}, << >>)
  /\ \A i \in 2..(Len(xml_string) - 1) : xml_string[i] \in InvokePieces
  /\ WellFormed(xml_string, << >>)

\* C32: each invoke element with name X directly inside function_calls gives
\* exactly one tool call named X, in order; its arguments have exactly the
\* names of its parameter children, each mapped to the stripped text of a
\* child of that name (of the only one when the name occurs once)
C32_InvokeGivesOneCall ==
  (parser.done /\ IsBlock(parser.xml_string)) =>
    LET params == InvokeParams(BlockBody(parser.xml_string), 0, FALSE, << >>)
        calls == SelectSeq(parser.tool_calls, LAMBDA c : c.tool_name = "create_file")
    IN /\ parser.parsed
       /\ Len(calls) = Len(params)
       /\ \A i \in 1..Len(calls) :
            /\ {e.name : e \in calls[i].tool_kwargs}
                 = {params[i][j].name : j \in 1..Len(params[i])}
            /\ \A e \in calls[i].tool_kwargs :
                 /\ \E j \in 1..Len(params[i]) :
                      params[i][j].name = e.name /\ Strip(params[i][j].text) = e.value
                 /\ \A f \in calls[i].tool_kwargs : f.name = e.name => f = e

\* the block with one invoke element create_file holding the parameters path
\* and content gave exactly one call create_file with path a.txt and content hi
C32_Witness ==
  /\ parser.done
  /\ BlockBody(parser.xml_string)
       = <<Piece("start", "invoke", "create_file", {}, << >>),
           Piece("leaf", "parameter", "path", {}, <<"a.txt">>),
           Piece("leaf", "parameter", "content", {}, <<" ", "hi", " ">>),
           Piece("end", "invoke", "", {}, << >>)>>
  /\ IsBlock(parser.xml_string)
  /\ parser.tool_calls
       = <<[tool_name |-> "create_file",
            tool_kwargs |-> {[name |-> "path", value |-> <<"a.txt">>],
                             [name |-> "content", value |-> <<"hi">>]}]>>

\* C34: create_folder executes mkdir first; it executes chmod exactly when
\* mkdir exited with 0, and after mkdir; it returns true exactly when both
\* exited with 0; when mkdir fails, mkdir is the only command executed and the
\* result is false
C34_MkdirBeforeChmod ==
  \A p \in Callers :
    (callers.co[p].pc = "done" /\ callers.co[p].op = "exec") =>
      LET done == callers.co[p].commands IN
      /\ Len(done) \in {1, 2}
      /\ done[1].command = "mkdir"
      /\ Len(done) = 2 <=> done[1].exit_code = 0
      /\ Len(done) = 2 => done[2].command = "chmod"
      /\ callers.co[p].ok <=> (\A i \in 1..Len(done) : done[i].exit_code = 0) /\ Len(done) = 2
      /\ done[1].exit_code # 0 => (Len(done) = 1 /\ ~callers.co[p].ok)

\* a create_folder whose mkdir exited with 0 and whose chmod exited with 1
\* returned false after both commands
C34_Witness ==
  \E p \in Callers :
    /\ callers.co[p].pc = "done"
    /\ callers.co[p].op = "exec"
    /\ callers.co[p].commands = <<Executed("mkdir", 0), Executed("chmod", 1)>>
    /\ ~callers.co[p].ok

\* C39: a remove on a project whose local descriptor names a container the
\* daemon no longer holds returns true and leaves the descriptor cleared
C39_DanglingDescriptorCleared ==
  (/\ call.op = "remove"
   /\ call.pre.desc.present
   /\ call.pre.desc.type = "local_docker"
   /\ call.pre.state = ""
   /\ call.pre.daemon_up
   /\ ~call.pre.unavailable) =>
    /\ call.ok
    /\ ~call.post.desc.present

\* what C35 says of one make_llm_api_call: at most MAX_RETRIES attempts, each
\* but the last with a retryable failure; a response ends the call at once by
\* returning it, any other exception ends it at once with LLMError, and
\* LLMRetryError is raised exactly after MAX_RETRIES retryable failures
LlmCallAsClaimed(c) ==
  LET n == Len(c.outcomes)
      last == c.outcomes[n]
  IN /\ n <= MAX_RETRIES
     /\ \A i \in 1..(n - 1) : c.outcomes[i] \in Retryable
     /\ (n > 0 /\ last = "response") <=> c.pc = "returned"
     /\ (n > 0 /\ last = "Exception") <=> (c.pc = "raised" /\ c.raised = "LLMError")
     /\ (c.pc = "raised" /\ c.raised = "LLMRetryError") =>
          (n = MAX_RETRIES /\ last \in Retryable)
     /\ (n = MAX_RETRIES /\ last \in Retryable) =>
          (c.pc = "sleep" \/ (c.pc = "raised" /\ c.raised = "LLMRetryError"))
     /\ c.pc = "raised" => c.raised \in {"LLMError", "LLMRetryError"}

\* C35: make_llm_api_call makes at most MAX_RETRIES attempts, returns the first
\* response, raises LLMError at once on an exception that is not retryable and
\* LLMRetryError after MAX_RETRIES retryable failures, and every call that was
\* made ends by returning or raising
C35_BoundedRetriesTerminate ==
  /\ [](\A c \in LlmCalls : LlmCallAsClaimed(llm[c]))
  /\ \A c \in LlmCalls :
       (llm[c].pc # "idle") ~> (llm[c].pc \in {"returned", "raised"})

\* a call whose two attempts failed with a rate limit and a provider error
\* raised LLMRetryError
C35_Witness ==
  \E c \in LlmCalls :
    /\ llm[c].outcomes = <<"RateLimitError", "OpenAIError">>
    /\ llm[c].pc = "raised"
    /\ llm[c].raised = "LLMRetryError"

\* C33: when the underscored form of a name is registered, resolving the name
\* and resolving its underscored form give the same handler and schema, and
\* executing a call of the name runs that handler with the arguments of the
\* call; when neither form is registered nothing is resolved, and executing
\* the call returns a failed ToolResult and raises nothing
C33_HyphenUnderscoreSame ==
  dispatch.done =>
    LET name == dispatch.function_name
        tools == dispatch.tools
    IN /\ Normalize(name) \in tools =>
            /\ Resolve(tools, name).found
            /\ Resolve(tools, name) = Resolve(tools, Normalize(name))
            /\ dispatch.result = ToolResult(TRUE, Normalize(name), dispatch.arguments)
       /\ (name \notin tools /\ Normalize(name) \notin tools) =>
            /\ Resolve(tools, name) = NoTool
            /\ ~dispatch.result.success
            /\ dispatch.result.ran = << >>
            /\ dispatch.result.raised = ""

\* a call of a-b-c with an argument, on a registry that holds a_b_c and
\* another tool, ran the handler of a_b_c with that argument
C33_Witness ==
  /\ dispatch.done
  /\ dispatch.function_name = <<"a", "-", "b", "-", "c">>
  /\ <<"a", "_", "b", "_", "c">> \in dispatch.tools
  /\ Cardinality(dispatch.tools) = 2
  /\ dispatch.arguments = {"param1"}
  /\ dispatch.result.success
  /\ dispatch.result.ran = <<"a", "_", "b", "_", "c">>
  /\ dispatch.result.arguments = {"param1"}

\* C37: every image_context row the driver has deleted was put, with its
\* caption and its image part, in the temporary message of the iteration
\* that deleted it
C37_DeletedOnlyIfIncluded ==
  \A id \in hist.deleted : \E i \in 1..Len(hist.included) : hist.included[i] = id

\* C38: when the newest browser_state row was written by a browser action
\* whose screenshot was uploaded, so that the row holds the URL of the
\* screenshot, the temporary message of the next iteration has an image part
\* built from that row
C38_ScreenshotUrlDelivered ==
  (/\ pc = "run_thread"
   /\ hist.built
   /\ hist.bs_used # 0
   /\ \E i \in 1..Len(messages) :
        /\ messages[i].message_id = hist.bs_used
        /\ messages[i].content = "image_url") =>
    \E k \in 1..Len(temporary_message) :
      /\ temporary_message[k].type = "image_url"
      /\ temporary_message[k].msg = hist.bs_used

\* C36: once an iteration that received an error chunk and a termination
\* signal has taken its end-of-iteration decision, the loop is set to exit
\* and the events of the iteration hold no final_response
C36_ErrorBeforeTermination ==
  (pc \in {"while", "done"} /\ hist.error_chunk /\ agent_should_terminate) =>
    /\ pc = "while" => ~continue_execution
    /\ \A i \in 1..Len(events) : events[i].type # "final_response"

\* a streaming iteration received an error chunk and a termination signal,
\* yielded the error event and ended with the loop set to exit
C36_Witness ==
  /\ pc = "while"
  /\ stream
  /\ hist.error_chunk
  /\ agent_should_terminate
  /\ ~continue_execution
  /\ \E i \in 1..Len(events) : IsErrorEvent(events[i])

\* C40: a stream that ends with no tool executed leaves the assistant row as
\* the last row of the thread; while the last row of the thread is an
\* assistant row no step makes an LLM call, and the last-message check of the
\* following iteration leaves the loop
C40_AssistantLastNoCall ==
  [][/\ (pc = "chunks" /\ pc' = "decide" /\ rp.executed = 0) =>
          messages'[Len(messages')].type = "assistant"
     /\ (messages # << >> /\ messages[Len(messages)].type = "assistant") =>
          /\ llm_calls' = llm_calls
          /\ pc' # "run_thread"
          /\ pc = "last_message" => (pc' = "done" /\ hist'.exit = "last_assistant")]_vars

\* after a first response without tool call, termination signal or error, the
\* second iteration left the loop at the last-message check
C40_Witness ==
  /\ pc = "done"
  /\ hist.exit = "last_assistant"
  /\ iteration_count = 2
  /\ llm_calls = 1
  /\ ~agent_should_terminate
  /\ ~error_detected
  /\ Len(messages) = 2
  /\ messages[2].type = "assistant"

====
